---- MODULE Spec2Model ----
(***************************************************************************)
(* Tenant data-synchronisation pipeline of the Shopify ingestion backend:  *)
(*   backend/src/lib/syncService.js   upsertCustomers / upsertProducts /   *)
(*                                    upsertOrders / syncAll               *)
(*   backend/src/lib/shopifyClient.js requestWithRetry / fetchAllResources *)
(*   backend/src/lib/shopifyGraphQL.js graphqlRequest / fetch*GraphQL      *)
(*   backend/src/routes/webhooks.js   POST /:topic                         *)
(*                                                                         *)
(* Spec       the pipeline over the tenant-scoped tables: two invocations, *)
(*            one after the other or in progress at the same time          *)
(* SpecFetch  one paginated fetch of a protocol client, page request by    *)
(*            page request (requestWithRetry + fetchAllResources,          *)
(*            graphqlRequest + fetch*GraphQL)                              *)
(* SpecNormalize  one remote record through the mapping of a protocol      *)
(*            client or of the webhook receiver                            *)
(***************************************************************************)
EXTENDS Integers, Sequences, FiniteSets, TLC

VARIABLES
    customers,   \* Customer table: set of rows
    products,    \* Product table: set of rows
    orders,      \* Order table: set of rows
    lineItems,   \* OrderLineItem table: set of rows
    remote,      \* what the remote store's endpoints serve, per tenant
    proc,        \* the invocations: one record per invocation
    faults,      \* number of storage / remote failures injected so far
    pg,          \* one paginated fetch of a protocol client
    nz           \* one raw record through a normalizer

dbVars == <<customers, products, orders, lineItems>>
pipeVars == <<customers, products, orders, lineItems, remote, proc, faults>>
vars == <<customers, products, orders, lineItems, remote, proc, faults, pg, nz>>

(***************************************************************************)
(* Bounds of the model                                                     *)
(***************************************************************************)
MaxFaults == 1

\* the invocations of a run, in the order they are started
Procs == {"p1", "p2"}
Earlier(p) == IF p = "p2" THEN {"p1"} ELSE {}
Tenants == {"T1", "T2"}
\* an id that names no Tenant row
NoTenant == "T0"

Null == "null"
NullId == 0

Min(a, b) == IF a < b THEN a ELSE b

(***************************************************************************)
(* Canonical records (the shape the protocol clients and the webhook       *)
(* mapping hand to the upsert functions).  An absent value is Null / 0.    *)
(***************************************************************************)
CustA1 == [shopifyId |-> "1", email |-> "a@x", firstName |-> "Ann", lastName |-> "Lee", totalSpent |-> 10]
CustB1 == [shopifyId |-> "1", email |-> Null, firstName |-> "Bob", lastName |-> Null, totalSpent |-> 0]
CustA2 == [shopifyId |-> "2", email |-> "c@x", firstName |-> "Cy", lastName |-> "Ray", totalSpent |-> 20]
CustA3 == [shopifyId |-> "3", email |-> "d@x", firstName |-> "Di", lastName |-> Null, totalSpent |-> 0]

ProdA1 == [shopifyId |-> "11", title |-> "Mug", vendor |-> "Acme", productType |-> "cup", price |-> 5]
ProdB1 == [shopifyId |-> "11", title |-> "Mug XL", vendor |-> "Acme", productType |-> "cup", price |-> 7]

LineA == [shopifyId |-> "li-1", title |-> "Mug", quantity |-> 1, price |-> 5]
LineB == [shopifyId |-> "li-2", title |-> "Mug XL", quantity |-> 2, price |-> 7]

\* order 100 of customer "1"; the same order with no customer (guest
\* checkout); order 101 of a customer "9" that is nowhere in the store
OrdA100 == [shopifyId |-> "100", customerId |-> "1", orderNumber |-> "1001", totalPrice |-> 50, orderDate |-> "d1", lineItems |-> <<>>]
OrdB100 == [shopifyId |-> "100", customerId |-> Null, orderNumber |-> "1001", totalPrice |-> 55, orderDate |-> "d1", lineItems |-> <<>>]
OrdA101 == [shopifyId |-> "101", customerId |-> "9", orderNumber |-> "1002", totalPrice |-> 20, orderDate |-> "d2", lineItems |-> <<>>]
\* orders as fetchOrdersGraphQL and the unit tests build them: with line items
OrdL100 == [shopifyId |-> "100", customerId |-> "1", orderNumber |-> "1001", totalPrice |-> 50, orderDate |-> "d1", lineItems |-> <<LineA>>]
OrdM100 == [shopifyId |-> "100", customerId |-> "1", orderNumber |-> "1001", totalPrice |-> 50, orderDate |-> "d1", lineItems |-> <<LineB>>]

(***************************************************************************)
(* JavaScript's  x || null  and  x || 0  on the canonical fields           *)
(***************************************************************************)
OrNull(v) == IF v = "" \/ v = Null THEN Null ELSE v

\* the value a failed numeric conversion yields (NaN)
NaN == 0 - 1

OrZero(n) == IF n = 0 \/ n = NaN THEN 0 ELSE n

(***************************************************************************)
(* Storage operations (Prisma on the tenant-scoped tables).  A row is the  *)
(* written data plus its internal key id; rows are never deleted, so the   *)
(* next key is the number of rows plus one.                                *)
(***************************************************************************)
SameKey(r, d) == r.tenantId = d.tenantId /\ r.shopifyId = d.shopifyId

\* createMany without skipDuplicates' conflict check: every record is inserted
RECURSIVE CreateManyAll(_, _)
CreateManyAll(rows, data) ==
    IF data = <<>> THEN rows
    ELSE CreateManyAll(rows \cup {[id |-> Cardinality(rows) + 1] @@ Head(data)}, Tail(data))

\* prisma.<table>.createMany({data, skipDuplicates: true}): one statement;
\* a record whose (tenantId, shopifyId) is already there, in the table or
\* earlier in the same data, is skipped
RECURSIVE CreateManySkipDuplicates(_, _)
CreateManySkipDuplicates(rows, data) ==
    IF data = <<>> THEN rows
    ELSE LET d == Head(data)
             next == IF \E r \in rows : SameKey(r, d)
                     THEN rows
                     ELSE rows \cup {[id |-> Cardinality(rows) + 1] @@ d}
         IN CreateManySkipDuplicates(next, Tail(data))

\* an updateMany that matches no row
UpdateManyNothing(rows, tenantId, shopifyId, data) == rows

\* prisma.<table>.updateMany({where: {tenantId, shopifyId}, data})
UpdateMany(rows, tenantId, shopifyId, data) ==
    {IF r.tenantId = tenantId /\ r.shopifyId = shopifyId THEN data @@ r ELSE r : r \in rows}

\* the rows of tenant t
RowsOf(rows, t) == {r \in rows : r.tenantId = t}

\* a lookup by external id alone
FindManyAnyTenant(rows, tenantId, ids) ==
    {r \in rows : r.shopifyId \in ids}

\* prisma.customer.findMany({where: {tenantId, shopifyId: {in: ids}}})
FindMany(rows, tenantId, ids) ==
    {r \in rows : r.tenantId = tenantId /\ r.shopifyId \in ids}

(***************************************************************************)
(* upsertCustomers / upsertProducts / upsertOrders: the data they write    *)
(***************************************************************************)
\* const BATCH_SIZE = 100, scaled down: a list of three records spans two batches
BATCH_SIZE == 2

\* positions of the batch that starts at offset i of a list of n records
BatchIdx(i, n) == (i + 1)..Min(i + BATCH_SIZE, n)

Batch(list, i) == SubSeq(list, i + 1, Min(i + BATCH_SIZE, Len(list)))

CustomerUpdateData(c) ==
    [email |-> OrNull(c.email), firstName |-> OrNull(c.firstName),
     lastName |-> OrNull(c.lastName), totalSpent |-> OrZero(c.totalSpent)]

CustomerCreateData(tenantId, c) ==
    [tenantId |-> tenantId, shopifyId |-> c.shopifyId] @@ CustomerUpdateData(c)

ProductUpdateData(pr) ==
    [title |-> pr.title, vendor |-> pr.vendor, productType |-> pr.productType, price |-> pr.price]

ProductCreateData(tenantId, pr) ==
    [tenantId |-> tenantId, shopifyId |-> pr.shopifyId] @@ ProductUpdateData(pr)

\* the customer id of the first order only
FirstCustomerShopifyId(ords) ==
    {ords[k].customerId : k \in {j \in DOMAIN ords : j = 1}} \ {Null, ""}

\* [...new Set(orders.map(o => o.customerId).filter(Boolean))]
CustomerShopifyIds(ords) ==
    {ords[k].customerId : k \in DOMAIN ords} \ {Null, ""}

\* customers.forEach(c => customersMap.set(c.shopifyId, c.id))
CustomersMap(found) ==
    [s \in {r.shopifyId : r \in found} |-> (CHOOSE r \in found : r.shopifyId = s).id]

\* a customersMap that resolves nothing
ResolveNone(cmap, o) == NullId

\* order.customerId ? customersMap.get(order.customerId) || null : null
ResolveCustomer(cmap, o) ==
    IF o.customerId \in {Null, ""} THEN NullId
    ELSE IF o.customerId \in DOMAIN cmap THEN cmap[o.customerId] ELSE NullId

OrderUpdateData(cmap, o) ==
    [customerId |-> ResolveCustomer(cmap, o), orderNumber |-> o.orderNumber,
     totalPrice |-> o.totalPrice, orderDate |-> o.orderDate]

OrderCreateData(tenantId, cmap, o) ==
    [tenantId |-> tenantId, shopifyId |-> o.shopifyId] @@ OrderUpdateData(cmap, o)

SeqMap(Op(_), list) == [k \in DOMAIN list |-> Op(list[k])]

(***************************************************************************)
(* The remote store: what its endpoints serve for a tenant.  The GraphQL   *)
(* and the REST customer endpoints are two requests; nothing in the code   *)
(* makes their answers agree.                                              *)
(***************************************************************************)
StoreEmpty == [gqlCustomers |-> <<>>, restCustomers |-> <<>>, products |-> <<>>, orders |-> <<>>]
StoreTwo == [gqlCustomers |-> <<CustA1, CustA2>>, restCustomers |-> <<CustA1, CustA2>>,
             products |-> <<>>, orders |-> <<OrdA100>>]
StoreMix == [gqlCustomers |-> <<CustA1>>, restCustomers |-> <<CustB1>>,
             products |-> <<ProdA1>>, orders |-> <<OrdA101, OrdB100>>]
StoreBig == [gqlCustomers |-> <<CustA1, CustB1, CustA3>>, restCustomers |-> <<CustA1, CustA2, CustA3>>,
             products |-> <<ProdA1, ProdB1>>, orders |-> <<OrdB100, OrdA101, OrdA100>>]

Stores == {StoreEmpty, StoreTwo, StoreMix, StoreBig}

Entities == {"customers", "products", "orders"}

\* the lists a caller other than syncAll passes to an upsert function
CallLists(entity) ==
    CASE entity = "customers" -> {<<CustA1>>, <<CustB1>>, <<CustA1, CustA2>>, <<CustB1, CustA2>>}
      [] entity = "products" -> {<<ProdA1>>, <<ProdB1>>}
      [] entity = "orders" -> {<<OrdA100>>, <<OrdB100>>, <<OrdL100>>, <<OrdM100>>, <<OrdA101>>}

NoData == [customers |-> <<>>, products |-> <<>>, orders |-> <<>>]
NoCounts == [customers |-> 0, products |-> 0, orders |-> 0]

NoRows == [customers |-> {}, products |-> {}, orders |-> {}]

\* an invocation slot with no invocation in it
IdleProc ==
    [pc |-> "idle", out |-> "none", kind |-> "none", tenant |-> NoTenant, after |-> {},
     before |-> NoRows,
     data |-> NoData, ent |-> "none", i |-> 0, pend |-> {}, cmap |-> <<>>,
     count |-> 0, res |-> NoCounts, err |-> "none", log |-> <<>>, inflight |-> {}]

(***************************************************************************)
(* Control flow of syncAll and of the upsert functions                     *)
(***************************************************************************)
\* syncAll with the order upsert ahead of the customer upsert
SyncOrderOrdersFirst == <<"orders", "customers", "products">>

\* upsert in order: customers first (for order-customer linking)
SyncOrder == <<"customers", "products", "orders">>

PosInOrder(entity) == CHOOSE k \in DOMAIN SyncOrder : SyncOrder[k] = entity

RECURSIVE EnterUpsert(_, _)
RECURSIVE ReturnCount(_, _, _)

\* the upsert function for `entity` is called on pr.data[entity]
EnterUpsert(pr, entity) ==
    LET list == pr.data[entity]
        called == [pr EXCEPT !.ent = entity, !.i = 0, !.count = 0, !.cmap = <<>>,
                             !.log = Append(pr.log, "call:" \o entity)] IN
    IF Len(list) = 0 THEN ReturnCount(called, entity, 0)
    ELSE IF entity = "orders" /\ CustomerShopifyIds(list) # {}
         THEN [called EXCEPT !.pc = "lookup"]
         ELSE [called EXCEPT !.pc = "create"]

\* the upsert function for `entity` returns n to its caller
ReturnCount(pr, entity, n) ==
    LET pr1 == [pr EXCEPT !.res[entity] = n, !.ent = "none", !.i = 0, !.count = 0,
                          !.pend = {}, !.cmap = <<>>,
                          !.log = Append(pr.log, "return:" \o entity)]
    IN IF pr.kind = "syncAll" /\ PosInOrder(entity) < Len(SyncOrder)
       THEN EnterUpsert(pr1, SyncOrder[PosInOrder(entity) + 1])
       ELSE [pr1 EXCEPT !.pc = "done", !.out = "ok"]

\* a loop that keeps the length of the last batch as its count
AfterBatchLast(pr) ==
    LET n == Len(pr.data[pr.ent])
        cnt == Cardinality(BatchIdx(pr.i, n))
    IN IF pr.i + BATCH_SIZE < n
       THEN [pr EXCEPT !.pc = "create", !.i = pr.i + BATCH_SIZE, !.count = cnt]
       ELSE ReturnCount(pr, pr.ent, cnt)

\* a batch is written: count += batch.length, then the next batch or return
AfterBatch(pr) ==
    LET n == Len(pr.data[pr.ent])
        cnt == pr.count + Cardinality(BatchIdx(pr.i, n))
    IN IF pr.i + BATCH_SIZE < n
       THEN [pr EXCEPT !.pc = "create", !.i = pr.i + BATCH_SIZE, !.count = cnt]
       ELSE ReturnCount(pr, pr.ent, cnt)

\* the failures the message of a thrown error carries: an Error of a
\* protocol client or of the storage layer carries its own cause and no other
Causes(e) == IF e \in {"none", "Tenant not found"} THEN {} ELSE {e}

\* an error reaches the caller of the invocation
Throw(pr, e) == [pr EXCEPT !.out = "err", !.err = e]

(***************************************************************************)
(* A paginated fetch.  The remote collection is a chain of pages; a page   *)
(* is a sequence of items.  REST chains pages by the Link header, GraphQL  *)
(* by pageInfo {hasNextPage, endCursor}.                                   *)
(***************************************************************************)
MaxItems == 5
SmallPage == 2
\* ?limit=250 / first: 250
PAGE_LIMIT == 250
\* requestWithRetry(url, options, retries = 3)
DEFAULT_RETRIES == 3

NumPages(n, size) == IF n = 0 THEN 1 ELSE (n + size - 1) \div size

\* the collection 1..n served in pages of `size` items
Chunk(n, size) ==
    [k \in 1..NumPages(n, size) |->
        [j \in 1..Min(size, n - (k - 1) * size) |-> (k - 1) * size + j]]

\* the second chain has an empty page in its middle
Chains ==
    {Chunk(n, SmallPage) : n \in 0..MaxItems}
        \cup {<< <<1>>, <<>>, <<2>> >>}
        \cup {Chunk(530, PAGE_LIMIT)}

RECURSIVE Flatten(_)
Flatten(pages) == IF pages = <<>> THEN <<>> ELSE Head(pages) \o Flatten(Tail(pages))

\* the Link header the server sends with page k of its chain
LinkHeader(chain, k) ==
    (IF k > 1 THEN <<[url |-> k - 1, rel |-> "previous"]>> ELSE <<>>)
        \o (IF k < Len(chain) THEN <<[url |-> k + 1, rel |-> "next"]>> ELSE <<>>)

\* a Link parser that takes the first link whatever its rel
FirstLink(header) == IF header = <<>> THEN 0 ELSE header[1].url

\* nextUrl: the first link of the header with rel="next", else null (0)
NextLink(header) ==
    IF \E k \in DOMAIN header : header[k].rel = "next"
    THEN header[CHOOSE k \in DOMAIN header :
                    header[k].rel = "next" /\ \A j \in 1..(k - 1) : header[j].rel # "next"].url
    ELSE 0

\* HTTP statuses a request can end with; NoResponse is a network error
NoResponse == 0 - 2
ErrorStatuses == {429, 401, 403, 500, NoResponse}

\* a retry rule that retries every failed request
ShouldRetryAny(client, status, retries) == client = "rest" /\ retries > 0

\* error.response && error.response.status === 429 && retries > 0;
\* graphqlRequest posts once and has no retry
ShouldRetry(client, status, retries) ==
    client = "rest" /\ status = 429 /\ retries > 0

\* waitTime + 500, waitTime = retry-after seconds * 1000, or 2000 without header
WaitMs(retryAfter) == (IF retryAfter > 0 THEN retryAfter * 1000 ELSE 2000) + 500

\* an error mapping that reports every failure the same way
RestErrorFlat(resource, status) == [msg |-> "Failed to fetch", resource |-> resource, status |-> 0]

\* the catch block of fetchAllResources: the Error it throws
RestError(resource, status) ==
    IF status = 401 THEN [msg |-> "Shopify API authentication failed (401)", resource |-> "none", status |-> 401]
    ELSE IF status = 403 THEN [msg |-> "Shopify API permission denied (403)", resource |-> "none", status |-> 403]
    ELSE [msg |-> "Failed to fetch", resource |-> resource, status |-> status]

\* the catch block of graphqlRequest: the Error it throws
GraphqlError(status, bodyErrors) ==
    IF status = NoResponse THEN [msg |-> "network", resource |-> "none", status |-> status]
    ELSE IF status = 401 THEN [msg |-> "Shopify API authentication failed (401)", resource |-> "none", status |-> 401]
    ELSE IF status = 403 THEN [msg |-> "Shopify API permission denied (403)", resource |-> "none", status |-> 403]
    ELSE IF bodyErrors THEN [msg |-> "GraphQL errors", resource |-> "none", status |-> 0]
    ELSE [msg |-> "GraphQL request failed", resource |-> "none", status |-> status]

NoError == [msg |-> "none", resource |-> "none", status |-> 0]

IdleFetch ==
    [pc |-> "idle", client |-> "none", resource |-> "none", chain |-> <<>>, at |-> 0,
     results |-> <<>>, retries |-> 0, hist |-> <<>>, reqs |-> <<>>, throttled |-> 0,
     wait |-> 0, out |-> "none", error |-> NoError]

\* a page request for page k starts: requestWithRetry with the default
\* retries, or graphqlRequest
PageRequest(f, k) ==
    [f EXCEPT !.pc = "request", !.at = k, !.retries = DEFAULT_RETRIES,
              !.reqs = Append(f.reqs, k), !.wait = 0]

\* fetchAllResources(initialUrl, ...) / fetch<Resource>GraphQL(...) is called
StartFetch(client, resource, chain) ==
    /\ pg.pc = "idle"
    /\ pg' = PageRequest([IdleFetch EXCEPT !.client = client, !.resource = resource,
                                           !.chain = chain], 1)
    /\ UNCHANGED <<pipeVars, nz>>

\* a loop that also ends on a page with no items
RespondPageUntilEmpty ==
    /\ pg.pc = "request"
    /\ LET got == [pg EXCEPT !.results = pg.results \o pg.chain[pg.at],
                             !.hist = Append(pg.hist, 200)]
           next == IF pg.chain[pg.at] = <<>> THEN 0
                   ELSE IF pg.client = "rest"
                   THEN NextLink(LinkHeader(pg.chain, pg.at))
                   ELSE IF pg.at < Len(pg.chain) THEN pg.at + 1 ELSE 0
       IN pg' = IF next # 0 THEN PageRequest(got, next)
                ELSE [got EXCEPT !.pc = "done", !.out = "ok"]
    /\ UNCHANGED <<pipeVars, nz>>

\* the server answers the request in flight with its page
RespondPage ==
    /\ pg.pc = "request"
    /\ LET got == [pg EXCEPT !.results = pg.results \o pg.chain[pg.at],
                             !.hist = Append(pg.hist, 200)]
           next == IF pg.client = "rest"
                   THEN NextLink(LinkHeader(pg.chain, pg.at))
                   ELSE IF pg.at < Len(pg.chain) THEN pg.at + 1 ELSE 0
       IN pg' = IF next # 0 THEN PageRequest(got, next)
                ELSE [got EXCEPT !.pc = "done", !.out = "ok"]
    /\ UNCHANGED <<pipeVars, nz>>

\* the server answers the request in flight with an error status, or the
\* request gets no response
RespondError(status, retryAfter, bodyErrors) ==
    /\ pg.pc = "request"
    /\ LET got == [pg EXCEPT !.hist = Append(pg.hist, status),
                             !.throttled = IF status = 429 THEN 1 ELSE pg.throttled]
       IN pg' = IF ShouldRetry(pg.client, status, pg.retries)
                THEN [got EXCEPT !.pc = "wait", !.wait = WaitMs(retryAfter)]
                ELSE [got EXCEPT !.pc = "done", !.out = "err",
                          !.error = IF pg.client = "rest" THEN RestError(pg.resource, status)
                                    ELSE GraphqlError(status, bodyErrors)]
    /\ UNCHANGED <<pipeVars, nz>>

\* a 200 response of the GraphQL endpoint that carries `errors`
RespondGraphqlErrors ==
    /\ pg.pc = "request"
    /\ pg.client = "graphql"
    /\ pg' = [pg EXCEPT !.pc = "done", !.out = "err", !.hist = Append(pg.hist, 200),
                        !.error = [msg |-> "GraphQL errors", resource |-> "none", status |-> 0]]
    /\ UNCHANGED <<pipeVars, nz>>

\* the wait is over: requestWithRetry(url, options, retries - 1)
Retry ==
    /\ pg.pc = "wait"
    /\ pg' = [pg EXCEPT !.pc = "request", !.retries = pg.retries - 1,
                        !.reqs = Append(pg.reqs, pg.at)]
    /\ UNCHANGED <<pipeVars, nz>>

NextFetch ==
    \/ \E client \in {"rest", "graphql"}, resource \in Entities, chain \in Chains :
           StartFetch(client, resource, chain)
    \/ RespondPage
    \/ \E status \in ErrorStatuses, retryAfter \in {0, 1}, bodyErrors \in BOOLEAN :
           RespondError(status, retryAfter, bodyErrors)
    \/ RespondGraphqlErrors
    \/ Retry

\* no record has gone through a normalizer
IdleNormalize == [entity |-> "none", client |-> "none", remote |-> <<>>, out |-> <<>>]

Init ==
    /\ customers = {}
    /\ products = {}
    /\ orders = {}
    /\ lineItems = {}
    /\ remote \in {[T1 |-> s, T2 |-> StoreMix] : s \in Stores}
    /\ proc = [p \in Procs |-> IdleProc]
    /\ faults = 0
    /\ pg = IdleFetch
    /\ nz = IdleNormalize

\* whether the invocation still has requests or writes on their way
Quiescent(pr) == pr.pend = {} /\ pr.inflight = {}

\* the caller of the invocation has its result or its error, and nothing
\* of it is still running
Over(pr) == pr.out \in {"ok", "err"} /\ Quiescent(pr)

\* a start that waits until the invocations before it are over
MayStartExclusive(p) ==
    /\ proc[p].pc = "idle"
    /\ \A q \in Earlier(p) : proc[q].pc # "idle" /\ Over(proc[q])

\* invocation p has not started and the ones before it have
MayStart(p) ==
    /\ proc[p].pc = "idle"
    /\ \A q \in Earlier(p) : proc[q].pc # "idle"

\* a fresh invocation record; `after` is the set of invocations that were
\* over when this one started, `before` the rows stored at that moment when
\* nothing else was running
Fresh(p) ==
    LET over == {q \in Procs : proc[q].pc # "idle" /\ Over(proc[q])} IN
    [IdleProc EXCEPT !.after = over,
                     !.before = IF over # {} /\ \A q \in Procs : proc[q].pc = "idle" \/ q \in over
                                THEN [customers |-> customers, products |-> products, orders |-> orders]
                                ELSE NoRows]

(***************************************************************************)
(* syncAll: tenant lookup and the fetches                                  *)
(***************************************************************************)
\* a syncAll that goes to the REST client for customers straight away
SyncAllRestFirst(p, t) ==
    /\ MayStart(p)
    /\ proc' = [proc EXCEPT ![p] =
           IF t \notin Tenants
           THEN Throw([Fresh(p) EXCEPT !.pc = "tenant", !.kind = "syncAll", !.tenant = t],
                      "Tenant not found")
           ELSE [Fresh(p) EXCEPT !.pc = "rest_customers", !.kind = "syncAll", !.tenant = t,
                                 !.log = <<"rest:customers">>]]
    /\ UNCHANGED <<dbVars, remote, faults, pg, nz>>

\* syncAll(tenantId) up to its first remote call: prisma.tenant.findUnique,
\* 'Tenant not found', else the primary customer fetch is issued
SyncAll(p, t) ==
    /\ MayStart(p)
    /\ proc' = [proc EXCEPT ![p] =
           IF t \notin Tenants
           THEN Throw([Fresh(p) EXCEPT !.pc = "tenant", !.kind = "syncAll", !.tenant = t],
                      "Tenant not found")
           ELSE [Fresh(p) EXCEPT !.pc = "gql_customers", !.kind = "syncAll", !.tenant = t,
                                 !.log = <<"graphql:customers">>]]
    /\ UNCHANGED <<dbVars, remote, faults, pg, nz>>

\* a syncAll that upserts the customers as soon as it has them
IssueProductsOrdersAfterCustomers(pr) ==
    EnterUpsert([pr EXCEPT !.inflight = {"products", "orders"},
                           !.log = pr.log \o <<"rest:products", "rest:orders">>], "customers")

\* Promise.all([fetchProducts(...), fetchOrders(...)]): both REST fetches are issued
IssueProductsOrders(pr) ==
    [pr EXCEPT !.pc = "fetch_po", !.inflight = {"products", "orders"},
               !.log = pr.log \o <<"rest:products", "rest:orders">>]

\* customers = await fetchCustomersGraphQL(...), or its catch block
FetchCustomersGraphQL(p) ==
    /\ proc[p].pc = "gql_customers"
    /\ proc[p].out = "none"
    /\ \/ proc' = [proc EXCEPT ![p] = IssueProductsOrders(
                      [proc[p] EXCEPT !.data.customers = remote[proc[p].tenant].gqlCustomers])]
       \/ proc' = [proc EXCEPT ![p] = [proc[p] EXCEPT !.pc = "rest_customers",
                  !.log = proc[p].log \o <<"fail:graphql:customers", "rest:customers">>]]
    /\ UNCHANGED <<dbVars, remote, faults, pg, nz>>

\* a catch block that asks the primary client again
FetchCustomersAgainGraphQL(p) ==
    /\ proc[p].pc = "rest_customers"
    /\ proc[p].out = "none"
    /\ \/ proc' = [proc EXCEPT ![p] = IssueProductsOrders(
                      [proc[p] EXCEPT !.data.customers = remote[proc[p].tenant].gqlCustomers,
                                      !.log = Append(proc[p].log, "graphql:customers")])]
       \/ proc' = [proc EXCEPT ![p] =
              Throw([proc[p] EXCEPT !.log = Append(proc[p].log, "fail:rest:customers")],
                    "rest:customers")]
    /\ UNCHANGED <<dbVars, remote, faults, pg, nz>>

\* a catch block that goes on with no customers when the REST client fails too
FetchCustomersRESTOrNone(p) ==
    /\ proc[p].pc = "rest_customers"
    /\ proc[p].out = "none"
    /\ \/ proc' = [proc EXCEPT ![p] = IssueProductsOrders(
                      [proc[p] EXCEPT !.data.customers = remote[proc[p].tenant].restCustomers])]
       \/ proc' = [proc EXCEPT ![p] = IssueProductsOrders(
                      [proc[p] EXCEPT !.log = Append(proc[p].log, "fail:rest:customers")])]
    /\ UNCHANGED <<dbVars, remote, faults, pg, nz>>

\* customers = await fetchCustomers(...) in the catch block.  After its
\* pages, fetchCustomers asks for every customer's detail and catches the
\* failure of such a request ({id, data: null}): the customer keeps what
\* the list page gave (the model's shop answers both requests alike).
FetchCustomersREST(p) ==
    /\ proc[p].pc = "rest_customers"
    /\ proc[p].out = "none"
    /\ \/ proc' = [proc EXCEPT ![p] = IssueProductsOrders(
                      [proc[p] EXCEPT !.data.customers = remote[proc[p].tenant].restCustomers])]
       \/ /\ Len(remote[proc[p].tenant].restCustomers) > 0
          /\ proc' = [proc EXCEPT ![p] = IssueProductsOrders(
                      [proc[p] EXCEPT !.data.customers = remote[proc[p].tenant].restCustomers,
                                      !.log = Append(proc[p].log, "fail:detail:customers")])]
       \/ proc' = [proc EXCEPT ![p] =
              Throw([proc[p] EXCEPT !.log = Append(proc[p].log, "fail:rest:customers")],
                    "rest:customers")]
    /\ UNCHANGED <<dbVars, remote, faults, pg, nz>>

\* a Promise.all whose failed fetch counts as an empty list
SettleFetchOrEmpty(p, entity) ==
    /\ proc[p].pc = "fetch_po"
    /\ entity \in proc[p].inflight
    /\ LET pr == [proc[p] EXCEPT !.inflight = proc[p].inflight \ {entity}] IN
       \E failed \in BOOLEAN :
           proc' = [proc EXCEPT ![p] =
              LET got == [pr EXCEPT !.data[entity] = IF failed THEN <<>> ELSE remote[pr.tenant][entity],
                                    !.log = IF failed THEN Append(pr.log, "fail:rest:" \o entity)
                                            ELSE pr.log]
              IN IF got.inflight = {} THEN EnterUpsert(got, SyncOrder[1]) ELSE got]
    /\ UNCHANGED <<dbVars, remote, faults, pg, nz>>

\* one of the two fetches of the Promise.all settles.  The first rejection
\* rejects the Promise.all; the other fetch is not cancelled and settles later.
SettleFetch(p, entity) ==
    /\ proc[p].pc = "fetch_po"
    /\ entity \in proc[p].inflight
    /\ LET pr == [proc[p] EXCEPT !.inflight = proc[p].inflight \ {entity}] IN
       \/ proc' = [proc EXCEPT ![p] =
              IF pr.out # "none" THEN pr
              ELSE LET got == [pr EXCEPT !.data[entity] = remote[pr.tenant][entity]]
                   IN IF got.inflight = {} THEN EnterUpsert(got, SyncOrder[1]) ELSE got]
       \/ proc' = [proc EXCEPT ![p] =
              LET failed == [pr EXCEPT !.log = Append(pr.log, "fail:rest:" \o entity)]
              IN IF pr.out # "none" THEN failed ELSE Throw(failed, "rest:" \o entity)]
    /\ UNCHANGED <<dbVars, remote, faults, pg, nz>>

FetchProducts(p) == SettleFetch(p, "products")

FetchOrders(p) == SettleFetch(p, "orders")

(***************************************************************************)
(* Other callers of the upsert functions                                   *)
(***************************************************************************)
\* a direct call upsertX(tenantId, list) (module.exports; the unit tests)
CallUpsert(p, t, entity, list) ==
    /\ MayStart(p)
    /\ proc' = [proc EXCEPT ![p] =
           EnterUpsert([Fresh(p) EXCEPT !.kind = "call", !.tenant = t, !.data[entity] = list],
                       entity)]
    /\ UNCHANGED <<dbVars, remote, faults, pg, nz>>

(***************************************************************************)
(* Webhook receiver: POST /webhooks/shopify/:topic                         *)
(***************************************************************************)
\* String(n) on the ids of the payloads below
ToStr(n) ==
    CASE n = 1 -> "1" [] n = 2 -> "2" [] n = 9 -> "9" [] n = 11 -> "11"
      [] n = 100 -> "100" [] n = 1001 -> "1001" [] OTHER -> "undefined"

\* parseFloat on the amounts of the payloads below; anything else is NaN
ParseFloat(str) ==
    CASE str = "10.00" -> 10 [] str = "5.00" -> 5 [] str = "50.00" -> 50
      [] str = "0.00" -> 0 [] str = "0" -> 0 [] OTHER -> NaN

\* raw payloads; an optional sub-object is a sequence of length 0 or 1
HookCustomer == [id |-> 1, email |-> "a@x", first_name |-> "Ann", last_name |-> "Lee", total_spent |-> "10.00"]
HookCustomerBare == [id |-> 2, email |-> Null, first_name |-> Null, last_name |-> Null, total_spent |-> Null]
HookProduct == [id |-> 11, title |-> "Mug", vendor |-> "Acme", product_type |-> "cup", variants |-> <<[price |-> "5.00"]>>]
HookProductBare == [id |-> 11, title |-> "Mug", vendor |-> "Acme", product_type |-> "cup", variants |-> <<>>]
HookOrder == [id |-> 100, customer |-> <<[id |-> 1]>>, order_number |-> 1001, total_price |-> "50.00", created_at |-> "d1"]
HookOrderGuest == [id |-> 100, customer |-> <<>>, order_number |-> 1001, total_price |-> "abc", created_at |-> "d1"]

HookPayloads(topic) ==
    CASE topic = "customers" -> {HookCustomer, HookCustomerBare}
      [] topic = "products" -> {HookProduct, HookProductBare}
      [] topic = "orders" -> {HookOrder, HookOrderGuest}

\* topic.startsWith('customers/')
HookCustomerData(w) ==
    <<[shopifyId |-> ToStr(w.id), email |-> w.email, firstName |-> w.first_name,
       lastName |-> w.last_name, totalSpent |-> OrZero(ParseFloat(w.total_spent))]>>

\* topic.startsWith('products/')
HookProductData(w) ==
    <<[shopifyId |-> ToStr(w.id), title |-> w.title, vendor |-> w.vendor,
       productType |-> w.product_type,
       price |-> IF Len(w.variants) > 0 /\ w.variants[1].price \notin {Null, ""}
                 THEN ParseFloat(w.variants[1].price) ELSE 0]>>

\* topic.startsWith('orders/')
HookOrderData(w) ==
    <<[shopifyId |-> ToStr(w.id),
       customerId |-> IF Len(w.customer) > 0 /\ w.customer[1].id # 0
                      THEN ToStr(w.customer[1].id) ELSE Null,
       orderNumber |-> IF w.order_number # 0 THEN ToStr(w.order_number) ELSE Null,
       totalPrice |-> OrZero(ParseFloat(w.total_price)),
       orderDate |-> w.created_at,
       lineItems |-> <<>>]>>

HookData(topic, w) ==
    CASE topic = "customers" -> HookCustomerData(w)
      [] topic = "products" -> HookProductData(w)
      [] topic = "orders" -> HookOrderData(w)

\* a verified event for the shop of tenant t: the payload is mapped and
\* handed to the upsert function of its topic
Webhook(p, t, topic, w) ==
    /\ MayStart(p)
    /\ proc' = [proc EXCEPT ![p] =
           EnterUpsert([Fresh(p) EXCEPT !.kind = "webhook", !.tenant = t,
                                        !.data[topic] = HookData(topic, w)], topic)]
    /\ UNCHANGED <<dbVars, remote, faults, pg, nz>>

(***************************************************************************)
(* The storage steps of the upsert functions.  The updateMany calls of a   *)
(* batch are issued together (Promise.all) and complete in any order; when *)
(* one rejects, the ones still pending are not cancelled.                  *)
(***************************************************************************)
\* the createMany of the batch at offset i is done: its updates are issued
AfterCreate(pr) ==
    [pr EXCEPT !.pc = "update", !.pend = BatchIdx(pr.i, Len(pr.data[pr.ent]))]

\* update k of the batch is done
AfterUpdate(pr, k) ==
    LET pr1 == [pr EXCEPT !.pend = pr.pend \ {k}] IN
    IF pr1.out = "none" /\ pr1.pend = {} THEN AfterBatch(pr1) ELSE pr1

CustomerCreateMany(p) ==
    LET pr == proc[p] IN
    /\ pr.pc = "create" /\ pr.ent = "customers" /\ pr.out = "none"
    /\ customers' = CreateManySkipDuplicates(customers,
           SeqMap(LAMBDA c : CustomerCreateData(pr.tenant, c), Batch(pr.data.customers, pr.i)))
    /\ proc' = [proc EXCEPT ![p] = AfterCreate(pr)]
    /\ UNCHANGED <<products, orders, lineItems, remote, faults, pg, nz>>

CustomerUpdateMany(p, k) ==
    LET pr == proc[p] IN
    /\ pr.pc = "update" /\ pr.ent = "customers" /\ k \in pr.pend
    /\ customers' = UpdateMany(customers, pr.tenant, pr.data.customers[k].shopifyId,
                               CustomerUpdateData(pr.data.customers[k]))
    /\ proc' = [proc EXCEPT ![p] = AfterUpdate(pr, k)]
    /\ UNCHANGED <<products, orders, lineItems, remote, faults, pg, nz>>

ProductCreateMany(p) ==
    LET pr == proc[p] IN
    /\ pr.pc = "create" /\ pr.ent = "products" /\ pr.out = "none"
    /\ products' = CreateManySkipDuplicates(products,
           SeqMap(LAMBDA x : ProductCreateData(pr.tenant, x), Batch(pr.data.products, pr.i)))
    /\ proc' = [proc EXCEPT ![p] = AfterCreate(pr)]
    /\ UNCHANGED <<customers, orders, lineItems, remote, faults, pg, nz>>

ProductUpdateMany(p, k) ==
    LET pr == proc[p] IN
    /\ pr.pc = "update" /\ pr.ent = "products" /\ k \in pr.pend
    /\ products' = UpdateMany(products, pr.tenant, pr.data.products[k].shopifyId,
                              ProductUpdateData(pr.data.products[k]))
    /\ proc' = [proc EXCEPT ![p] = AfterUpdate(pr, k)]
    /\ UNCHANGED <<customers, orders, lineItems, remote, faults, pg, nz>>

\* the single prisma.customer.findMany of upsertOrders
OrderFindCustomers(p) ==
    LET pr == proc[p] IN
    /\ pr.pc = "lookup" /\ pr.ent = "orders" /\ pr.out = "none"
    /\ proc' = [proc EXCEPT ![p] = [pr EXCEPT !.pc = "create",
           !.log = Append(pr.log, "findMany:customers"),
           !.cmap = CustomersMap(FindMany(customers, pr.tenant, CustomerShopifyIds(pr.data.orders)))]]
    /\ UNCHANGED <<dbVars, remote, faults, pg, nz>>

OrderCreateMany(p) ==
    LET pr == proc[p] IN
    /\ pr.pc = "create" /\ pr.ent = "orders" /\ pr.out = "none"
    /\ orders' = CreateManySkipDuplicates(orders,
           SeqMap(LAMBDA o : OrderCreateData(pr.tenant, pr.cmap, o), Batch(pr.data.orders, pr.i)))
    /\ proc' = [proc EXCEPT ![p] = AfterCreate(pr)]
    /\ UNCHANGED <<customers, products, lineItems, remote, faults, pg, nz>>

OrderUpdateMany(p, k) ==
    LET pr == proc[p] IN
    /\ pr.pc = "update" /\ pr.ent = "orders" /\ k \in pr.pend
    /\ orders' = UpdateMany(orders, pr.tenant, pr.data.orders[k].shopifyId,
                            OrderUpdateData(pr.cmap, pr.data.orders[k]))
    /\ proc' = [proc EXCEPT ![p] = AfterUpdate(pr, k)]
    /\ UNCHANGED <<customers, products, lineItems, remote, faults, pg, nz>>

\* a storage failure that also removes what the invocation's tenant has stored
StorageFailRollback(p) ==
    LET pr == proc[p] IN
    /\ pr.out = "none"
    /\ faults < MaxFaults
    /\ faults' = faults + 1
    /\ pr.pc \in {"lookup", "create", "update"}
    /\ proc' = [proc EXCEPT ![p] = Throw([pr EXCEPT !.pend = {}], "storage")]
    /\ customers' = customers \ RowsOf(customers, pr.tenant)
    /\ products' = products \ RowsOf(products, pr.tenant)
    /\ orders' = orders \ RowsOf(orders, pr.tenant)
    /\ UNCHANGED <<lineItems, remote, pg, nz>>

\* a storage operation of the invocation rejects
StorageFail(p) ==
    LET pr == proc[p] IN
    /\ pr.out = "none"
    /\ faults < MaxFaults
    /\ faults' = faults + 1
    /\ \/ /\ pr.pc \in {"lookup", "create"}
          /\ proc' = [proc EXCEPT ![p] = Throw(pr, "storage")]
       \/ /\ pr.pc = "update"
          /\ \E k \in pr.pend :
                proc' = [proc EXCEPT ![p] = Throw([pr EXCEPT !.pend = pr.pend \ {k}], "storage")]
    /\ UNCHANGED <<dbVars, remote, pg, nz>>

Step(p) ==
    \/ \E t \in Tenants \cup {NoTenant} : SyncAll(p, t)
    \/ FetchCustomersGraphQL(p)
    \/ FetchCustomersREST(p)
    \/ FetchProducts(p)
    \/ FetchOrders(p)
    \/ \E t \in Tenants, e \in Entities : \E list \in CallLists(e) : CallUpsert(p, t, e, list)
    \/ \E t \in Tenants, e \in Entities : \E w \in HookPayloads(e) : Webhook(p, t, e, w)
    \/ CustomerCreateMany(p)
    \/ \E k \in proc[p].pend : CustomerUpdateMany(p, k)
    \/ ProductCreateMany(p)
    \/ \E k \in proc[p].pend : ProductUpdateMany(p, k)
    \/ OrderFindCustomers(p)
    \/ OrderCreateMany(p)
    \/ \E k \in proc[p].pend : OrderUpdateMany(p, k)
    \/ StorageFail(p)

Next == \E p \in Procs : Step(p)

Spec == Init /\ [][Next]_vars

SpecFetch == Init /\ [][NextFetch]_vars

(***************************************************************************)
(* Normalizers: what the mappings of the protocol clients make of a remote *)
(* record.  A remote record is given once and presented in the shape each  *)
(* endpoint serves (GraphQL: camelCase nodes with global ids; REST and     *)
(* webhook payloads: snake_case objects with numeric ids).  An absent      *)
(* property is Null, an optional sub-object a sequence of length 0 or 1.   *)
(***************************************************************************)
\* JavaScript truthiness of a string-valued property
Truthy(v) == v # Null /\ v # ""

Ch(str, i) == SubSeq(str, i, i)

\* str.trim().split(/\s+/).filter(p => p.length > 0)
RECURSIVE SplitFrom(_, _, _)
SplitFrom(str, i, cur) ==
    IF i > Len(str) THEN (IF cur = "" THEN <<>> ELSE <<cur>>)
    ELSE IF Ch(str, i) = " "
         THEN (IF cur = "" THEN <<>> ELSE <<cur>>) \o SplitFrom(str, i + 1, "")
         ELSE SplitFrom(str, i + 1, cur \o Ch(str, i))

Split(str) == SplitFrom(str, 1, "")

\* parts.join(' ')
RECURSIVE Join(_)
Join(parts) ==
    IF parts = <<>> THEN ""
    ELSE IF Len(parts) = 1 THEN parts[1]
    ELSE parts[1] \o " " \o Join(Tail(parts))

\* parts.slice(0, -1)
AllButLast(parts) == SubSeq(parts, 1, Len(parts) - 1)

\* id.replace('gid://shopify/<Type>/', '') on an id that starts with the prefix
StripGid(id, prefix) ==
    IF Len(id) >= Len(prefix) /\ SubSeq(id, 1, Len(prefix)) = prefix
    THEN SubSeq(id, Len(prefix) + 1, Len(id))
    ELSE id

\* a split in which the display name overrides what was found before
FromDisplayNameOverriding(f, l, displayName) ==
    IF ~Truthy(displayName) THEN [firstName |-> f, lastName |-> l]
    ELSE LET parts == Split(displayName) IN
         IF Len(parts) = 1 THEN [firstName |-> parts[1], lastName |-> l]
         ELSE IF Len(parts) > 1
         THEN [firstName |-> Join(AllButLast(parts)), lastName |-> parts[Len(parts)]]
         ELSE [firstName |-> f, lastName |-> l]

\* the name a split display name gives: [firstName, lastName] on top of
\* what was found before (f, l)
FromDisplayName(f, l, displayName) ==
    IF ~Truthy(displayName) THEN [firstName |-> f, lastName |-> l]
    ELSE LET parts == Split(displayName) IN
         IF Len(parts) = 1
         THEN [firstName |-> IF ~Truthy(f) THEN parts[1] ELSE f, lastName |-> l]
         ELSE IF Len(parts) > 1
         THEN [firstName |-> IF ~Truthy(f) /\ Truthy(Join(AllButLast(parts)))
                             THEN Join(AllButLast(parts)) ELSE f,
               lastName |-> IF ~Truthy(l) THEN parts[Len(parts)] ELSE l]
         ELSE [firstName |-> f, lastName |-> l]

\* deriveNameParts(customer) of the REST client
DeriveNameParts(c) ==
    LET f1 == IF Truthy(c.first_name) THEN c.first_name
              ELSE IF Truthy(c.firstName) THEN c.firstName ELSE Null
        l1 == IF Truthy(c.last_name) THEN c.last_name
              ELSE IF Truthy(c.lastName) THEN c.lastName ELSE Null
        da == c.default_address
        useDa == (~Truthy(f1) \/ ~Truthy(l1)) /\ Len(da) > 0
        f2 == IF useDa /\ ~Truthy(f1)
              THEN (IF Truthy(da[1].first_name) THEN da[1].first_name
                    ELSE IF Truthy(da[1].firstName) THEN da[1].firstName ELSE f1)
              ELSE f1
        l2 == IF useDa /\ ~Truthy(l1)
              THEN (IF Truthy(da[1].last_name) THEN da[1].last_name
                    ELSE IF Truthy(da[1].lastName) THEN da[1].lastName ELSE l1)
              ELSE l1
        useAddr == (~Truthy(f2) \/ ~Truthy(l2)) /\ Len(c.addresses) > 0
        addr == IF \E k \in DOMAIN c.addresses : c.addresses[k].default
                THEN c.addresses[CHOOSE k \in DOMAIN c.addresses :
                         c.addresses[k].default /\ \A j \in 1..(k - 1) : ~c.addresses[j].default]
                ELSE c.addresses[1]
        f3 == IF useAddr /\ ~Truthy(f2) /\ Truthy(addr.first_name) THEN addr.first_name ELSE f2
        l3 == IF useAddr /\ ~Truthy(l2) /\ Truthy(addr.last_name) THEN addr.last_name ELSE l2
        displayName == IF Truthy(c.display_name) THEN c.display_name
                       ELSE IF Truthy(c.name) THEN c.name
                       ELSE IF Len(da) > 0 /\ Truthy(da[1].name) THEN da[1].name
                       ELSE Null
        n4 == IF ~Truthy(f3) \/ ~Truthy(l3) THEN FromDisplayName(f3, l3, displayName)
              ELSE [firstName |-> f3, lastName |-> l3]
    IN [firstName |-> OrNull(n4.firstName), lastName |-> OrNull(n4.lastName)]

\* the mapping at the end of the REST fetchCustomers
RestCustomer(c) ==
    LET name == DeriveNameParts(c) IN
    [shopifyId |-> IF c.id # 0 THEN ToStr(c.id) ELSE Null,
     email |-> IF Truthy(c.email) THEN c.email
               ELSE IF Len(c.default_address) > 0 /\ Truthy(c.default_address[1].email)
                    THEN c.default_address[1].email ELSE Null,
     firstName |-> name.firstName,
     lastName |-> name.lastName,
     totalSpent |-> IF Truthy(c.total_spent) THEN OrZero(ParseFloat(c.total_spent))
                    ELSE IF Truthy(c.totalSpent) THEN OrZero(ParseFloat(c.totalSpent))
                    ELSE 0]

\* the mapping of a node in fetchCustomersGraphQL
GraphqlCustomer(c) ==
    LET f1 == OrNull(c.firstName)
        l1 == OrNull(c.lastName)
        da == c.defaultAddress
        f2 == IF ~Truthy(f1) /\ Len(da) > 0 /\ Truthy(da[1].firstName) THEN da[1].firstName ELSE f1
        l2 == IF ~Truthy(l1) /\ Len(da) > 0 /\ Truthy(da[1].lastName) THEN da[1].lastName ELSE l1
        useAddr == (~Truthy(f2) \/ ~Truthy(l2)) /\ Len(c.addresses) > 0
        isDefault(a) == Len(da) > 0 /\ a.id = da[1].id
        addr == IF \E k \in DOMAIN c.addresses : isDefault(c.addresses[k])
                THEN c.addresses[CHOOSE k \in DOMAIN c.addresses :
                         isDefault(c.addresses[k]) /\ \A j \in 1..(k - 1) : ~isDefault(c.addresses[j])]
                ELSE c.addresses[1]
        f3 == IF useAddr /\ ~Truthy(f2) /\ Truthy(addr.firstName) THEN addr.firstName ELSE f2
        l3 == IF useAddr /\ ~Truthy(l2) /\ Truthy(addr.lastName) THEN addr.lastName ELSE l2
        n4 == IF ~Truthy(f3) \/ ~Truthy(l3) THEN FromDisplayName(f3, l3, c.displayName)
              ELSE [firstName |-> f3, lastName |-> l3]
    IN [shopifyId |-> IF Truthy(c.id) THEN StripGid(c.id, "gid://shopify/Customer/") ELSE Null,
        email |-> IF Len(c.defaultEmailAddress) > 0 /\ Truthy(c.defaultEmailAddress[1].emailAddress)
                  THEN c.defaultEmailAddress[1].emailAddress ELSE Null,
        firstName |-> OrNull(n4.firstName),
        lastName |-> OrNull(n4.lastName),
        totalSpent |-> IF Len(c.amountSpent) > 0 /\ Truthy(c.amountSpent[1].amount)
                       THEN OrZero(ParseFloat(c.amountSpent[1].amount)) ELSE 0]

\* the mapping of fetchProducts (REST)
RestProduct(x) ==
    [shopifyId |-> ToStr(x.id), title |-> x.title, vendor |-> x.vendor,
     productType |-> x.product_type,
     price |-> IF Len(x.variants) > 0 /\ Truthy(x.variants[1].price)
               THEN ParseFloat(x.variants[1].price) ELSE 0]

\* the mapping of a node in fetchProductsGraphQL
GraphqlProduct(x) ==
    LET price == IF Len(x.variants) > 0 /\ Truthy(x.variants[1].price)
                 THEN x.variants[1].price ELSE "0"
    IN [shopifyId |-> StripGid(x.id, "gid://shopify/Product/"), title |-> x.title,
        vendor |-> x.vendor, productType |-> x.productType,
        price |-> OrZero(ParseFloat(price))]

\* the mapping of fetchOrders (REST)
RestOrder(o) ==
    [shopifyId |-> ToStr(o.id),
     customerId |-> IF Len(o.customer) > 0 /\ o.customer[1].id # 0
                    THEN ToStr(o.customer[1].id) ELSE Null,
     orderNumber |-> IF o.order_number # 0 THEN ToStr(o.order_number) ELSE Null,
     totalPrice |-> OrZero(ParseFloat(o.total_price)),
     orderDate |-> o.created_at,
     lineItems |-> <<>>]

\* the mapping of a node in fetchOrdersGraphQL
GraphqlOrder(o) ==
    LET amount == IF Len(o.totalPriceSet) > 0 /\ Truthy(o.totalPriceSet[1].amount)
                  THEN o.totalPriceSet[1].amount ELSE "0"
    IN [shopifyId |-> StripGid(o.id, "gid://shopify/Order/"),
        customerId |-> IF Len(o.customer) > 0 /\ Truthy(o.customer[1].id)
                       THEN OrNull(StripGid(o.customer[1].id, "gid://shopify/Customer/"))
                       ELSE Null,
        orderNumber |-> OrNull(o.name),
        totalPrice |-> OrZero(ParseFloat(amount)),
        orderDate |-> o.createdAt,
        lineItems |-> o.lineItems]

(***************************************************************************)
(* Remote records and the shape each endpoint serves them in               *)
(***************************************************************************)
Amounts == {Null, "", "0.00", "10.00", "abc"}

RemoteAddresses ==
    {<<>>,
     <<[id |-> 1, firstName |-> "Af", lastName |-> Null]>>,
     <<[id |-> 1, firstName |-> "Af", lastName |-> "Al"], [id |-> 2, firstName |-> "Bf", lastName |-> "Bl"]>>}

RemoteDefaultAddresses ==
    {<<>>} \cup {<<[id |-> 2, firstName |-> f, lastName |-> l, name |-> n]>> :
                    f \in {Null, "Df"}, l \in {Null, "Dl"}, n \in {Null, "Dn Dm"}}

RemoteCustomers ==
    [id : {1}, email : {Null, "a@x"}, firstName : {Null, "Tf"}, lastName : {Null, "", "Tl"},
     displayName : {Null, "  ", "Pat", " Pat Q  Roe "},
     defaultAddress : RemoteDefaultAddresses, addresses : RemoteAddresses,
     amountSpent : {Null, "10.00", "abc"}]

RemoteProducts ==
    [id : {11}, title : {"Mug"}, vendor : {"Acme"}, productType : {"cup"},
     variants : {<<>>} \cup {<<[price |-> a]>> : a \in Amounts}]

RemoteOrders ==
    [id : {100}, customer : {0, 1}, number : {0, 1001}, total : Amounts, created : {"d1"}]

\* a customer as a node of the GraphQL customers query
GraphqlCustomerNode(r) ==
    [id |-> "gid://shopify/Customer/" \o ToStr(r.id),
     firstName |-> r.firstName, lastName |-> r.lastName, displayName |-> r.displayName,
     defaultEmailAddress |-> IF r.email = Null THEN <<>> ELSE <<[emailAddress |-> r.email]>>,
     amountSpent |-> IF r.amountSpent = Null THEN <<>> ELSE <<[amount |-> r.amountSpent]>>,
     addresses |-> r.addresses,
     defaultAddress |-> r.defaultAddress]

\* the same customer as an object of customers.json (and of a webhook
\* payload): snake_case properties, a `default` flag on the addresses
RestCustomerObject(r) ==
    [id |-> r.id, email |-> r.email,
     first_name |-> r.firstName, last_name |-> r.lastName, firstName |-> Null, lastName |-> Null,
     display_name |-> r.displayName, name |-> Null,
     total_spent |-> r.amountSpent, totalSpent |-> Null,
     default_address |->
         IF r.defaultAddress = <<>> THEN <<>>
         ELSE <<[first_name |-> r.defaultAddress[1].firstName,
                 last_name |-> r.defaultAddress[1].lastName,
                 firstName |-> Null, lastName |-> Null,
                 name |-> r.defaultAddress[1].name, email |-> Null]>>,
     addresses |->
         [k \in DOMAIN r.addresses |->
             [first_name |-> r.addresses[k].firstName, last_name |-> r.addresses[k].lastName,
              default |-> r.defaultAddress # <<>> /\ r.addresses[k].id = r.defaultAddress[1].id]]]

GraphqlProductNode(r) ==
    [id |-> "gid://shopify/Product/" \o ToStr(r.id), title |-> r.title, vendor |-> r.vendor,
     productType |-> r.productType, variants |-> r.variants]

RestProductObject(r) ==
    [id |-> r.id, title |-> r.title, vendor |-> r.vendor, product_type |-> r.productType,
     variants |-> r.variants]

GraphqlOrderNode(r) ==
    [id |-> "gid://shopify/Order/" \o ToStr(r.id),
     name |-> IF r.number = 0 THEN Null ELSE "#" \o ToStr(r.number),
     customer |-> IF r.customer = 0 THEN <<>>
                  ELSE <<[id |-> "gid://shopify/Customer/" \o ToStr(r.customer)]>>,
     totalPriceSet |-> IF r.total = Null THEN <<>> ELSE <<[amount |-> r.total]>>,
     createdAt |-> r.created, lineItems |-> <<>>]

RestOrderObject(r) ==
    [id |-> r.id, customer |-> IF r.customer = 0 THEN <<>> ELSE <<[id |-> r.customer]>>,
     order_number |-> r.number, total_price |-> r.total, created_at |-> r.created]

Clients == {"graphql", "rest", "webhook"}

\* what a client makes of remote customer r
CanonicalCustomer(client, r) ==
    CASE client = "graphql" -> GraphqlCustomer(GraphqlCustomerNode(r))
      [] client = "rest" -> RestCustomer(RestCustomerObject(r))
      [] client = "webhook" -> HookCustomerData(RestCustomerObject(r))[1]

CanonicalProduct(client, r) ==
    CASE client = "graphql" -> GraphqlProduct(GraphqlProductNode(r))
      [] client = "rest" -> RestProduct(RestProductObject(r))
      [] client = "webhook" -> HookProductData(RestProductObject(r))[1]

CanonicalOrder(client, r) ==
    CASE client = "graphql" -> GraphqlOrder(GraphqlOrderNode(r))
      [] client = "rest" -> RestOrder(RestOrderObject(r))
      [] client = "webhook" -> HookOrderData(RestOrderObject(r))[1]

NormalizeCustomer(client, r) ==
    /\ nz.entity = "none"
    /\ nz' = [entity |-> "customers", client |-> client, remote |-> r,
              out |-> CanonicalCustomer(client, r)]
    /\ UNCHANGED <<pipeVars, pg>>

NormalizeProduct(client, r) ==
    /\ nz.entity = "none"
    /\ nz' = [entity |-> "products", client |-> client, remote |-> r,
              out |-> CanonicalProduct(client, r)]
    /\ UNCHANGED <<pipeVars, pg>>

NormalizeOrder(client, r) ==
    /\ nz.entity = "none"
    /\ nz' = [entity |-> "orders", client |-> client, remote |-> r,
              out |-> CanonicalOrder(client, r)]
    /\ UNCHANGED <<pipeVars, pg>>

NextNormalize ==
    \/ \E client \in Clients, r \in RemoteCustomers : NormalizeCustomer(client, r)
    \/ \E client \in Clients, r \in RemoteProducts : NormalizeProduct(client, r)
    \/ \E client \in Clients, r \in RemoteOrders : NormalizeOrder(client, r)

SpecNormalize == Init /\ [][NextNormalize]_vars


(***************************************************************************)
(* Vocabulary of the properties                                            *)
(***************************************************************************)
Has(log, e) == \E k \in DOMAIN log : log[k] = e

Count(log, e) == Cardinality({k \in DOMAIN log : log[k] = e})

\* position of the first e in log
First(log, e) == CHOOSE k \in DOMAIN log : log[k] = e /\ \A j \in 1..(k - 1) : log[j] # e

Ids(list) == {list[k].shopifyId : k \in DOMAIN list}

DistinctIds(list) == \A j, k \in DOMAIN list : list[j].shopifyId = list[k].shopifyId => j = k

\* invocation q is over and no other invocation ran or wrote since it started
Solo(q) ==
    /\ Over(proc[q])
    /\ \A p \in Procs \ {q} : proc[p].pc = "idle" \/ p \in proc[q].after

HoldsCustomer(r, c) ==
    /\ r.shopifyId = c.shopifyId
    /\ r.email = c.email
    /\ r.firstName = c.firstName
    /\ r.lastName = c.lastName
    /\ r.totalSpent = c.totalSpent

\* two calls of upsertCustomers one after the other: p, then q
TwoCustomerCalls(p, q) ==
    /\ p \in proc[q].after
    /\ proc[p].kind = "call" /\ proc[q].kind = "call"
    /\ proc[p].tenant = proc[q].tenant
    /\ proc[p].out = "ok" /\ proc[q].out = "ok"
    /\ Has(proc[p].log, "return:customers") /\ Has(proc[q].log, "return:customers")
    /\ DistinctIds(proc[p].data.customers) /\ DistinctIds(proc[q].data.customers)
    /\ Ids(proc[p].data.customers) = Ids(proc[q].data.customers)

\* C1: upsertCustomers called twice in sequence for one tenant with the same
\* N pairwise distinct external ids leaves exactly N Customer rows for the
\* tenant, each holding the second call's email, firstName, lastName and
\* totalSpent.
C1_UpsertTwice ==
    \A p, q \in Procs :
        TwoCustomerCalls(p, q) =>
            LET list == proc[q].data.customers
                rows == RowsOf(customers, proc[q].tenant)
            IN /\ Cardinality(rows) = Len(list)
               /\ \A k \in DOMAIN list : \E r \in rows : HoldsCustomer(r, list[k])

C1_Witness ==
    \E p, q \in Procs :
        /\ TwoCustomerCalls(p, q)
        /\ Len(proc[q].data.customers) = 2
        /\ proc[p].data.customers # proc[q].data.customers

\* C2: in every reachable state no two Customer rows, no two Product rows
\* and no two Order rows share the same (tenantId, externalId).
C2_UniqueKeys ==
    /\ \A r1, r2 \in customers : SameKey(r1, r2) => r1 = r2
    /\ \A r1, r2 \in products : SameKey(r1, r2) => r1 = r2
    /\ \A r1, r2 \in orders : SameKey(r1, r2) => r1 = r2

\* two invocations in progress at the same time have both written the same
\* customer key of the same tenant
C2_Witness ==
    \E p, q \in Procs :
        /\ p # q
        /\ p \notin proc[q].after /\ q \notin proc[p].after
        /\ proc[p].tenant = proc[q].tenant
        /\ Has(proc[p].log, "return:customers") /\ Has(proc[q].log, "return:customers")
        /\ Ids(proc[p].data.customers) \cap Ids(proc[q].data.customers) # {}
        /\ Has(proc[p].log, "return:orders") /\ Has(proc[q].log, "return:orders")
        /\ Ids(proc[p].data.orders) \cap Ids(proc[q].data.orders) # {}

\* the customer reference an order of tenant t must carry, given the
\* Customer rows stored for t
ExpectedCustomer(t, o) ==
    IF o.customerId \in {Null, ""} THEN NullId
    ELSE IF \E c \in RowsOf(customers, t) : c.shopifyId = o.customerId
         THEN (CHOOSE c \in RowsOf(customers, t) : c.shopifyId = o.customerId).id
         ELSE NullId

Once(list, k) == \A j \in DOMAIN list : list[j].shopifyId = list[k].shopifyId => j = k

\* C3: an order passed to upsertOrders for tenant T (its external id occurring
\* once in the list) is stored with the internal key of the Customer row of T
\* whose external id is the order's customer id, and with a null reference
\* when it carries no customer id or the id matches no Customer row of T; a
\* missing customer never makes the call fail.
C3_OrderLinks ==
    \A q \in Procs :
        /\ (Solo(q) /\ proc[q].out = "ok" /\ Has(proc[q].log, "return:orders")) =>
              \A k \in DOMAIN proc[q].data.orders :
                  Once(proc[q].data.orders, k) =>
                      \E r \in RowsOf(orders, proc[q].tenant) :
                          /\ r.shopifyId = proc[q].data.orders[k].shopifyId
                          /\ r.customerId = ExpectedCustomer(proc[q].tenant, proc[q].data.orders[k])
        /\ (proc[q].out = "err" /\ proc[q].ent = "orders") => proc[q].err = "storage"

\* one invocation has stored an order linked to its customer and an order
\* whose customer id matches no Customer row
C3_Witness ==
    \E q \in Procs :
        /\ Solo(q) /\ proc[q].out = "ok" /\ Has(proc[q].log, "return:orders")
        /\ \E r \in RowsOf(orders, proc[q].tenant) : r.customerId # NullId
        /\ \E k \in DOMAIN proc[q].data.orders :
              /\ proc[q].data.orders[k].customerId = "9"
              /\ \E r \in RowsOf(orders, proc[q].tenant) :
                    r.shopifyId = proc[q].data.orders[k].shopifyId /\ r.customerId = NullId

\* C4: in every syncAll, upsertCustomers has returned, with every customer
\* of the invocation written, before upsertOrders is called.
C4_CustomersBeforeOrders ==
    \A p \in Procs :
        (proc[p].kind = "syncAll" /\ Has(proc[p].log, "call:orders")) =>
            /\ Has(proc[p].log, "return:customers")
            /\ First(proc[p].log, "return:customers") < First(proc[p].log, "call:orders")
            /\ \A k \in DOMAIN proc[p].data.customers :
                  \E r \in RowsOf(customers, proc[p].tenant) :
                      r.shopifyId = proc[p].data.customers[k].shopifyId

C4_Witness ==
    \E p \in Procs :
        /\ proc[p].kind = "syncAll"
        /\ proc[p].pc = "lookup"
        /\ Len(proc[p].data.customers) > 0

LineItemsOf(orderId) ==
    {[shopifyId |-> li.shopifyId, title |-> li.title, quantity |-> li.quantity, price |-> li.price] :
        li \in {x \in lineItems : x.orderId = orderId}}

\* C5: after upsertOrders has processed an order, the OrderLineItem rows
\* stored for it are exactly the line items the order carries in the input.
C5_LineItemsReplaced ==
    \A q \in Procs :
        (Solo(q) /\ proc[q].out = "ok" /\ Has(proc[q].log, "return:orders")) =>
            \A k \in DOMAIN proc[q].data.orders :
                Once(proc[q].data.orders, k) =>
                    \A r \in RowsOf(orders, proc[q].tenant) :
                        r.shopifyId = proc[q].data.orders[k].shopifyId =>
                            LineItemsOf(r.id) =
                                {proc[q].data.orders[k].lineItems[j] :
                                    j \in DOMAIN proc[q].data.orders[k].lineItems}

\* what the fallback (REST) client returns for an entity type
RestList(store, e) == IF e = "customers" THEN store.restCustomers ELSE store[e]

\* the primary client raised for entity type e in invocation p
PrimaryFailed(p, e) == Has(proc[p].log, "fail:graphql:" \o e)

\* ... and the fallback client has returned its records
FallbackDone(p, e) ==
    /\ PrimaryFailed(p, e)
    /\ ~Has(proc[p].log, "fail:rest:" \o e)
    /\ proc[p].pc # "rest_customers"

\* C9: when the primary client raises while fetching an entity type in a
\* syncAll, the fallback client is invoked exactly once for that type, the
\* primary is not invoked again, and if the fallback succeeds its records
\* are the ones handed to the upsert and stored.
C9_FallbackOnce ==
    \A p \in Procs : \A e \in Entities :
        PrimaryFailed(p, e) =>
            /\ Count(proc[p].log, "rest:" \o e) = 1
            /\ Count(proc[p].log, "graphql:" \o e) = 1
            /\ FallbackDone(p, e) =>
                  LET list == RestList(remote[proc[p].tenant], e) IN
                  /\ proc[p].data[e] = list
                  /\ (Solo(p) /\ proc[p].out = "ok" /\ e = "customers") =>
                        \A k \in DOMAIN list :
                            Once(list, k) =>
                                \E r \in RowsOf(customers, proc[p].tenant) : HoldsCustomer(r, list[k])

\* the primary failed, the fallback returned records other than the
\* primary's, and they are stored
C9_Witness ==
    \E p \in Procs :
        /\ FallbackDone(p, "customers")
        /\ Solo(p) /\ proc[p].out = "ok"
        /\ remote[proc[p].tenant].restCustomers # remote[proc[p].tenant].gqlCustomers
        /\ Len(remote[proc[p].tenant].restCustomers) > 0


\* C10 as stated: for each of the three entity types the primary (GraphQL)
\* client is attempted first and the fallback (REST) client is called only
\* after the primary failed for that type.
C10_PrimaryFirstAllTypes ==
    \A p \in Procs : \A e \in Entities :
        (proc[p].kind = "syncAll" /\ Has(proc[p].log, "rest:" \o e)) =>
            /\ Has(proc[p].log, "graphql:" \o e)
            /\ PrimaryFailed(p, e)
            /\ First(proc[p].log, "graphql:" \o e) < First(proc[p].log, "fail:graphql:" \o e)
            /\ First(proc[p].log, "fail:graphql:" \o e) < First(proc[p].log, "rest:" \o e)

\* C10 amended: for customers the primary client is attempted first and the
\* REST client is called only after the primary failed; products and orders
\* are fetched through the REST client only, after the customer fetch, and
\* the primary client is never called for them.
C10_PrimaryFirstCustomers ==
    \A p \in Procs :
        proc[p].kind = "syncAll" =>
            /\ Has(proc[p].log, "rest:customers") =>
                  /\ Has(proc[p].log, "graphql:customers")
                  /\ PrimaryFailed(p, "customers")
                  /\ First(proc[p].log, "graphql:customers") < First(proc[p].log, "fail:graphql:customers")
                  /\ First(proc[p].log, "fail:graphql:customers") < First(proc[p].log, "rest:customers")
            /\ \A e \in {"products", "orders"} :
                  /\ ~Has(proc[p].log, "graphql:" \o e)
                  /\ Has(proc[p].log, "rest:" \o e) =>
                        /\ Has(proc[p].log, "graphql:customers")
                        /\ First(proc[p].log, "graphql:customers") < First(proc[p].log, "rest:" \o e)

C10_Witness ==
    \E p \in Procs :
        /\ proc[p].kind = "syncAll"
        /\ Has(proc[p].log, "rest:customers")
        /\ Has(proc[p].log, "rest:products")
        /\ Has(proc[p].log, "rest:orders")


(***************************************************************************)
(* Vocabulary of the properties of a paginated fetch.  pg.reqs[i] is the   *)
(* page the i-th HTTP request asks for, pg.hist[i] the status it got.      *)
(***************************************************************************)
ReqsFor(f, page) == {i \in DOMAIN f.reqs : f.reqs[i] = page}

\* the attempts made for the page of request i, up to and including i
AttemptsUpTo(f, i) == {j \in ReqsFor(f, f.reqs[i]) : j <= i}

\* the pages answered with 200, in the order of their responses
Delivered(f) ==
    LET RECURSIVE Del(_)
        Del(i) == IF i = 0 THEN <<>>
                  ELSE IF f.hist[i] = 200 THEN Del(i - 1) \o f.chain[f.reqs[i]]
                  ELSE Del(i - 1)
    IN Del(Len(f.hist))

ThrottleMessages ==
    {RestError(r, 429).msg : r \in Entities} \cup {GraphqlError(429, b).msg : b \in BOOLEAN}

\* C6: a REST page request is attempted again only after a 429 response of
\* the same page; when the first k <= 3 responses are 429 and the next one
\* is a success, the page is delivered after exactly k retries; the fourth
\* consecutive 429 is followed by no further attempt and the fetch fails
\* with the throttling failure of its resource.
C6_BoundedRetry ==
    pg.client = "rest" =>
        /\ \A i \in DOMAIN pg.reqs :
               i > 1 =>
                   /\ pg.hist[i - 1] \in {200, 429}
                   /\ (pg.reqs[i] = pg.reqs[i - 1]) = (pg.hist[i - 1] = 429)
        /\ \A i \in DOMAIN pg.hist :
               /\ Cardinality(AttemptsUpTo(pg, i)) <= DEFAULT_RETRIES + 1
               /\ pg.hist[i] = 200 =>
                      /\ \A j \in AttemptsUpTo(pg, i) \ {i} : pg.hist[j] = 429
                      /\ ReqsFor(pg, pg.reqs[i]) = AttemptsUpTo(pg, i)
               /\ (pg.hist[i] = 429 /\ Cardinality(AttemptsUpTo(pg, i)) = DEFAULT_RETRIES + 1) =>
                      /\ i = Len(pg.reqs)
                      /\ pg.pc = "done"
                      /\ pg.out = "err"
                      /\ pg.error = [msg |-> "Failed to fetch", resource |-> pg.resource, status |-> 429]
        /\ pg.results = Delivered(pg)

\* page 1 was delivered after three retries and page 2 was throttled four times
C6_Witness ==
    /\ pg.client = "rest"
    /\ pg.hist = <<429, 429, 429, 200, 429, 429, 429, 429>>
    /\ pg.reqs = <<1, 1, 1, 1, 2, 2, 2, 2>>
    /\ pg.out = "err"

\* C7: a 401 or 403 response ends the fetch of either client at once: no
\* request follows it, and the fetch fails with an error of that status
\* whose message differs from the one of a throttling failure.
C7_AuthNotRetried ==
    \A i \in DOMAIN pg.hist :
        pg.hist[i] \in {401, 403} =>
            /\ i = Len(pg.reqs)
            /\ pg.pc = "done"
            /\ pg.out = "err"
            /\ pg.error.status = pg.hist[i]
            /\ pg.error.msg \notin ThrottleMessages

\* a 403 that answers the retry of a throttled request of the second page
C7_Witness ==
    /\ pg.hist = <<200, 429, 403>>
    /\ pg.reqs = <<1, 2, 2>>
    /\ pg.pc = "done"

\* C8: without throttling, a fetch requests the pages one by one in chain
\* order; when it returns it has issued exactly one request per page and
\* its result is the concatenation of all pages in chain order (530 items
\* at page size 250: three requests).
C8_AllPagesInOrder ==
    pg.throttled = 0 =>
        /\ Len(pg.reqs) <= Len(pg.chain)
        /\ pg.reqs = [k \in 1..Len(pg.reqs) |-> k]
        /\ (pg.pc = "done" /\ pg.out = "ok") =>
               /\ Len(pg.reqs) = Len(pg.chain)
               /\ pg.results = Flatten(pg.chain)
               /\ Len(Flatten(pg.chain)) = 530 => Len(pg.reqs) = 3 /\ Len(pg.results) = 530

\* 530 items were fetched in pages of 250
C8_Witness ==
    /\ pg.pc = "done"
    /\ pg.out = "ok"
    /\ pg.throttled = 0
    /\ pg.chain = Chunk(530, PAGE_LIMIT)
    /\ Len(pg.chain) = 3


\* both protocol clients failed for entity type e in invocation p
BothFailed(p, e) == PrimaryFailed(p, e) /\ Has(proc[p].log, "fail:rest:" \o e)

\* C11 as stated: when the primary and the fallback client both fail for an
\* entity type, syncAll fails with an error that names both failures.
C11_CombinedError ==
    \A p \in Procs : \A e \in Entities :
        BothFailed(p, e) =>
            /\ proc[p].out = "err"
            /\ {"graphql:" \o e, "rest:" \o e} \subseteq Causes(proc[p].err)

\* C11 amended: when both clients fail for customers, syncAll fails at once
\* with the error of the fallback (REST) client alone; the failure of the
\* primary is not part of it, nothing more is fetched and nothing is written.
C11_FallbackErrorOnly ==
    \A p \in Procs : \A e \in Entities :
        BothFailed(p, e) =>
            /\ e = "customers"
            /\ proc[p].out = "err"
            /\ Causes(proc[p].err) = {"rest:customers"}
            /\ proc[p].pc = "rest_customers"
            /\ proc[p].log = <<"graphql:customers", "fail:graphql:customers",
                               "rest:customers", "fail:rest:customers">>
            /\ Quiescent(proc[p])

C11_Witness ==
    \E p \in Procs :
        /\ proc[p].kind = "syncAll"
        /\ BothFailed(p, "customers")
        /\ proc[p].out = "err"


\* the status of the last response of fetch f
LastStatus(f) == f.hist[Len(f.hist)]

\* fetch f has failed: its last page request ended in an error
FetchFailed(f) == f.pc = "done" /\ f.out = "err"

\* C12 as stated: a fetch whose page request fails for good requests no
\* further page, delivers only the error, and the error names the resource
\* that was being fetched, whatever the kind of failure.
C12_ResourceTagged ==
    FetchFailed(pg) =>
        /\ Len(pg.reqs) = Len(pg.hist)
        /\ pg.error # NoError
        /\ pg.error.resource = pg.resource

\* C12 amended: a fetch whose page request fails for good requests no
\* further page and delivers only the error.  The error of a REST fetch
\* names the resource unless the response was a 401 or 403, whose error
\* names the status alone; an error of the GraphQL client names no resource.
C12_ResourceTaggedUnlessAuth ==
    /\ pg.out = "err" => pg.pc = "done"
    /\ FetchFailed(pg) =>
          /\ Len(pg.reqs) = Len(pg.hist)
          /\ pg.error # NoError
          /\ pg.error.resource \in {pg.resource, "none"}
          /\ (pg.error.resource = pg.resource) =
                 (pg.client = "rest" /\ LastStatus(pg) \notin {401, 403})

\* the second page of a REST fetch failed after the first was collected
C12_Witness ==
    /\ FetchFailed(pg)
    /\ pg.client = "rest"
    /\ pg.hist = <<200, 500>>
    /\ pg.results # <<>>
    /\ pg.error.resource = "orders"


\* the table of an entity type
Table(e) ==
    CASE e = "customers" -> customers [] e = "products" -> products [] e = "orders" -> orders

\* the fields the upsert of invocation pr writes for record x of type e
WrittenData(pr, e, x) ==
    CASE e = "customers" -> CustomerUpdateData(x)
      [] e = "products" -> ProductUpdateData(x)
      [] e = "orders" -> OrderUpdateData(pr.cmap, x)

RowHolds(r, data) == \A f \in DOMAIN data : r[f] = data[f]

\* record k of list is stored for tenant t as some record of the list with
\* the same external id wrote it
StoredAsWritten(pr, e, k) ==
    LET list == pr.data[e] IN
    \E r \in RowsOf(Table(e), pr.tenant) :
        /\ r.shopifyId = list[k].shopifyId
        /\ \E j \in DOMAIN list :
               list[j].shopifyId = list[k].shopifyId /\ RowHolds(r, WrittenData(pr, e, list[j]))

\* syncAll p failed in a storage operation and nothing else ran beside it
FailedInStorage(p) ==
    /\ proc[p].kind = "syncAll"
    /\ proc[p].out = "err"
    /\ proc[p].err = "storage"
    /\ Solo(p)

\* C13: when a storage step of syncAll fails, the error reaches the caller
\* and nothing is rolled back: every record of an entity type whose upsert
\* had returned, and every record of the batches before the failed one, is
\* still stored as it was written.
C13_NoRollback ==
    \A p \in Procs :
        FailedInStorage(p) =>
            /\ \A e \in Entities \ {"orders"} :
                   Has(proc[p].log, "return:" \o e) =>
                       \A k \in DOMAIN proc[p].data[e] : StoredAsWritten(proc[p], e, k)
            /\ proc[p].ent \in Entities
            /\ \A k \in 1..proc[p].i : StoredAsWritten(proc[p], proc[p].ent, k)
            /\ ~Has(proc[p].log, "return:" \o proc[p].ent)

\* upsertOrders failed in its second batch after upsertCustomers and
\* upsertProducts had written their records
C13_Witness ==
    \E p \in Procs :
        /\ FailedInStorage(p)
        /\ proc[p].ent = "orders"
        /\ proc[p].i > 0
        /\ Len(proc[p].data.customers) > 0
        /\ Len(proc[p].data.products) > 0


\* the failures of remote requests an invocation has recorded
Failures(pr) == {pr.log[k] : k \in {j \in DOMAIN pr.log : SubSeq(pr.log[j], 1, 5) = "fail:"}}

\* C14 as stated: every failed remote request or storage operation of a
\* syncAll makes a failure reach its caller; none is absorbed.
C14_NoFailureAbsorbed ==
    \A p \in Procs :
        (proc[p].kind = "syncAll" /\ Failures(proc[p]) # {}) => proc[p].out # "ok"

\* C14 amended: a failure of the fallback client's fetch of customers, of
\* the fetch of products or orders, or of a storage operation reaches the
\* caller of syncAll.  A failure of the primary customer fetch is absorbed
\* when the fallback succeeds, and a failed per-customer detail request of
\* the fallback client is always absorbed.
C14_AbsorbedFailures ==
    \A p \in Procs :
        proc[p].kind = "syncAll" =>
            /\ \A e \in Entities :
                   Has(proc[p].log, "fail:rest:" \o e) =>
                       /\ proc[p].out = "err"
                       /\ proc[p].err \in {"rest:" \o x : x \in Entities}
            /\ proc[p].out = "ok" =>
                   /\ Failures(proc[p]) \subseteq {"fail:graphql:customers", "fail:detail:customers"}
                   /\ proc[p].err = "none"
            /\ proc[p].err # "none" => proc[p].out = "err"

\* a syncAll returned its summary although a detail request had failed
C14_Witness ==
    \E p \in Procs :
        /\ proc[p].kind = "syncAll"
        /\ proc[p].out = "ok"
        /\ Has(proc[p].log, "fail:detail:customers")


\* the list syncAll p fetched for entity type e
Fetched(p, e) ==
    IF e # "customers" THEN remote[proc[p].tenant][e]
    ELSE IF PrimaryFailed(p, e) THEN remote[proc[p].tenant].restCustomers
    ELSE remote[proc[p].tenant].gqlCustomers

\* C15: a syncAll that completes returns, for each entity type, the number
\* of records it fetched for that type: every record processed counts,
\* repeated external ids and unchanged records included, and an empty list
\* gives 0; an upsert function returns the length of the list it was given.
C15_CountsProcessed ==
    \A p \in Procs :
        /\ (proc[p].kind = "syncAll" /\ proc[p].out = "ok") =>
               \A e \in Entities :
                   /\ proc[p].data[e] = Fetched(p, e)
                   /\ proc[p].res[e] = Len(Fetched(p, e))
        /\ \A e \in Entities :
               Has(proc[p].log, "return:" \o e) => proc[p].res[e] = Len(proc[p].data[e])

\* a second syncAll of a shop that serves one customer twice: three
\* customers counted, two rows stored, none of them new
C15_Witness ==
    \E p, q \in Procs :
        /\ p \in proc[q].after
        /\ proc[p].kind = "syncAll" /\ proc[p].out = "ok"
        /\ proc[q].kind = "syncAll" /\ proc[q].out = "ok"
        /\ proc[p].tenant = proc[q].tenant
        /\ proc[q].res = [customers |-> 3, products |-> 2, orders |-> 3]
        /\ ~DistinctIds(proc[q].data.customers)
        /\ Cardinality(RowsOf(customers, proc[q].tenant)) < 3


\* no two different records of one batch of the list carry the same external id
BatchConsistent(list) ==
    \A j, k \in DOMAIN list :
        (list[j].shopifyId = list[k].shopifyId /\ (j - 1) \div BATCH_SIZE = (k - 1) \div BATCH_SIZE)
            => list[j] = list[k]

\* syncAll q ran alone after syncAll p had run alone for the same tenant,
\* both completed, and both fetched the same lists
SecondRun(p, q) ==
    /\ p # q
    /\ proc[p].kind = "syncAll" /\ proc[q].kind = "syncAll"
    /\ proc[p].tenant = proc[q].tenant
    /\ proc[p].out = "ok" /\ proc[q].out = "ok"
    /\ proc[p].after = {} /\ proc[q].after = {p}
    /\ Solo(q)
    /\ \A e \in Entities : proc[p].data[e] = proc[q].data[e]

LinksWithinTenant ==
    \A o \in orders :
        o.customerId # NullId =>
            \E c \in customers : c.id = o.customerId /\ c.tenantId = o.tenantId

\* a step of an invocation leaves the rows of every other tenant as they are
OtherTenantsUntouched ==
    \A p \in Procs :
        proc'[p] # proc[p] =>
            \A t \in Tenants \ {proc'[p].tenant} :
                /\ RowsOf(customers', t) = RowsOf(customers, t)
                /\ RowsOf(products', t) = RowsOf(products, t)
                /\ RowsOf(orders', t) = RowsOf(orders, t)

\* C17: every step of a syncAll, an upsert call or a webhook event for
\* tenant A leaves the Customer, Product and Order rows of every other
\* tenant unchanged, and no order ever refers to a Customer row of another
\* tenant, also when both tenants hold the same external ids.
C17_TenantIsolation == [][OtherTenantsUntouched]_vars /\ []LinksWithinTenant

\* an order of one tenant names a customer id that only the other tenant
\* has stored, and is stored with no customer
C17_Witness ==
    \E q \in Procs :
        /\ Has(proc[q].log, "return:orders")
        /\ \E k \in DOMAIN proc[q].data.orders :
               /\ proc[q].data.orders[k].customerId = "1"
               /\ \E c \in customers : c.shopifyId = "1" /\ c.tenantId # proc[q].tenant
               /\ ~\E c \in customers : c.shopifyId = "1" /\ c.tenantId = proc[q].tenant
               /\ \E o \in orders :
                      /\ o.tenantId = proc[q].tenant
                      /\ o.shopifyId = proc[q].data.orders[k].shopifyId
                      /\ o.customerId = NullId

(***************************************************************************)
(* Claims on the normalizers                                               *)
(***************************************************************************)
\* the first candidate that is present and non-empty, Null when none is
RECURSIVE FirstTruthy(_)
FirstTruthy(list) ==
    IF list = <<>> THEN Null
    ELSE IF Truthy(list[1]) THEN list[1] ELSE FirstTruthy(Tail(list))

\* the <<firstName, lastName>> the split of a display name stands for
NameOf(displayName) ==
    CASE displayName = "Pat" -> <<"Pat", Null>>
      [] displayName = " Pat Q  Roe " -> <<"Pat Q", "Roe">>
      [] displayName = "Dn Dm" -> <<"Dn", "Dm">>
      [] OTHER -> <<Null, Null>>

\* the default-address sub-object of remote customer r, all Null when absent
DefaultAddressOf(r) ==
    IF r.defaultAddress = <<>> THEN [firstName |-> Null, lastName |-> Null, name |-> Null]
    ELSE r.defaultAddress[1]

\* the entry of the addresses list the clients look at: the one that is the
\* default address, else the first
ListedAddressOf(r) ==
    IF r.addresses = <<>> THEN [firstName |-> Null, lastName |-> Null]
    ELSE IF r.defaultAddress # <<>> /\ \E k \in DOMAIN r.addresses : r.addresses[k].id = r.defaultAddress[1].id
    THEN LET k == CHOOSE k \in DOMAIN r.addresses : r.addresses[k].id = r.defaultAddress[1].id
         IN [firstName |-> r.addresses[k].firstName, lastName |-> r.addresses[k].lastName]
    ELSE [firstName |-> r.addresses[1].firstName, lastName |-> r.addresses[1].lastName]

\* the combined name a client splits: the display name; the REST client
\* takes the name of the default address when there is no display name
CombinedNameOf(client, r) ==
    IF client = "rest" THEN FirstTruthy(<<r.displayName, DefaultAddressOf(r).name>>)
    ELSE r.displayName

NameDerived == nz.entity = "customers" /\ nz.client \in {"graphql", "rest"}

\* C18 as stated: firstName and lastName each come from the first of three
\* sources that has it: the top-level fields, the default-address
\* sub-object, the split of the display name.
C18_ThreeSources ==
    NameDerived =>
        LET r == nz.remote IN
        /\ nz.out.firstName = FirstTruthy(<<r.firstName, DefaultAddressOf(r).firstName,
                                            NameOf(r.displayName)[1]>>)
        /\ nz.out.lastName = FirstTruthy(<<r.lastName, DefaultAddressOf(r).lastName,
                                           NameOf(r.displayName)[2]>>)

\* C18, amended: firstName and lastName each come from the first of four
\* sources that has it: the top-level fields, the default-address
\* sub-object, the entry of the addresses list (the default one, else the
\* first), and the split of the combined name, where a single token gives
\* firstName only and several tokens give firstName = all tokens but the
\* last joined by a space and lastName = the last token.
C18_FourSources ==
    NameDerived =>
        LET r == nz.remote
            split == NameOf(CombinedNameOf(nz.client, r)) IN
        /\ nz.out.firstName = FirstTruthy(<<r.firstName, DefaultAddressOf(r).firstName,
                                            ListedAddressOf(r).firstName, split[1]>>)
        /\ nz.out.lastName = FirstTruthy(<<r.lastName, DefaultAddressOf(r).lastName,
                                           ListedAddressOf(r).lastName, split[2]>>)

\* every source is present and each field comes from a different one
C18_Witness ==
    /\ NameDerived
    /\ nz.remote.firstName = Null /\ nz.remote.lastName = ""
    /\ DefaultAddressOf(nz.remote).firstName = Null /\ DefaultAddressOf(nz.remote).lastName = "Dl"
    /\ Len(nz.remote.addresses) = 2
    /\ nz.remote.displayName = " Pat Q  Roe "
    /\ nz.out.firstName = "Bf" /\ nz.out.lastName = "Dl"

\* the canonical numeric field of the record the normalizer produced
NumericField ==
    CASE nz.entity = "customers" -> nz.out.totalSpent
      [] nz.entity = "products" -> nz.out.price
      [] nz.entity = "orders" -> nz.out.totalPrice

\* the remote value the numeric field is read from, Null when there is none
NumericSource ==
    CASE nz.entity = "customers" -> nz.remote.amountSpent
      [] nz.entity = "products" ->
            IF nz.remote.variants = <<>> THEN Null ELSE nz.remote.variants[1].price
      [] nz.entity = "orders" -> nz.remote.total

\* the amounts that are decimal numbers
Parseable == {"0.00", "10.00"}

\* C19: every canonical numeric field (totalSpent, price, totalPrice) a
\* protocol client or the webhook mapping produces is a number, and it is 0
\* when the source value is missing or unparseable.
C19_NumericDefaults ==
    nz.entity # "none" =>
        /\ NumericField \in Int /\ NumericField # NaN
        /\ NumericSource \notin Parseable => NumericField = 0

\* C20: for the same remote customer the primary (GraphQL) and the fallback
\* (REST) client produce the same canonical record, so that a row written
\* from the one and rewritten from the other keeps its key and its values.
C20_SameCanonicalCustomer ==
    nz.entity = "customers" /\ nz.client = "graphql" =>
        nz.out = CanonicalCustomer("rest", nz.remote)

\* the row data the upsert function of entity e writes for canonical record x
\* of tenant T1 (no customer row stored)
WrittenFor(e, x) ==
    CASE e = "customers" -> CustomerCreateData("T1", x)
      [] e = "products" -> ProductCreateData("T1", x)
      [] e = "orders" -> OrderCreateData("T1", <<>>, x)

\* C21: the row a webhook event stores equals the row a full sync would
\* store for the same raw record: the event's payload goes through the same
\* normalization as a record of the REST client and through the same upsert.
C21_WebhookAsSync ==
    (nz.entity # "none" /\ nz.client = "webhook") =>
        WrittenFor(nz.entity, nz.out) =
            WrittenFor(nz.entity,
                       CASE nz.entity = "customers" -> CanonicalCustomer("rest", nz.remote)
                         [] nz.entity = "products" -> CanonicalProduct("rest", nz.remote)
                         [] nz.entity = "orders" -> CanonicalOrder("rest", nz.remote))

(***************************************************************************)
(* Phases of an invocation                                                 *)
(***************************************************************************)
Phase(pr) ==
    IF pr.pc = "idle" THEN "Idle"
    ELSE IF pr.out = "err" THEN "Failed"
    ELSE IF pr.out = "ok" THEN "Complete"
    ELSE IF pr.pc \in {"gql_customers", "rest_customers", "fetch_po"} THEN "Fetching"
    ELSE IF pr.ent = "customers" THEN "UpsertingCustomers"
    ELSE IF pr.ent = "products" THEN "UpsertingProducts"
    ELSE "UpsertingOrders"

PhaseOrder ==
    <<"Idle", "Fetching", "UpsertingCustomers", "UpsertingProducts", "UpsertingOrders", "Complete">>

PhaseRank(ph) == CHOOSE k \in DOMAIN PhaseOrder : PhaseOrder[k] = ph

\* the calls and returns of the upsert functions, in the order syncAll makes them
UpsertEvents ==
    <<"call:customers", "return:customers", "call:products", "return:products",
      "call:orders", "return:orders">>

IsUpsertEvent(e) == \E k \in DOMAIN UpsertEvents : UpsertEvents[k] = e

IsPrefix(s, t) == Len(s) <= Len(t) /\ s = SubSeq(t, 1, Len(s))

\* a step of invocation p keeps Complete and Failed, and otherwise moves to
\* Failed or forward in the order of the phases
PhaseStep(p) ==
    LET ph == Phase(proc[p])
        ph2 == Phase(proc'[p]) IN
    proc'[p].kind = "syncAll" =>
        /\ ph \in {"Complete", "Failed"} => ph2 = ph
        /\ ph \notin {"Complete", "Failed"} =>
              ph2 = "Failed" \/ PhaseRank(ph2) >= PhaseRank(ph)

\* the upsert functions were entered and left in the order of the phases,
\* each at most once, as far as the invocation's phase says
PhaseLog(pr) ==
    LET calls == SelectSeq(pr.log, IsUpsertEvent)
        ph == Phase(pr) IN
    /\ IsPrefix(calls, UpsertEvents)
    /\ ph = "Fetching" => calls = <<>>
    /\ ph = "UpsertingCustomers" => calls = SubSeq(UpsertEvents, 1, 1)
    /\ ph = "UpsertingProducts" => calls = SubSeq(UpsertEvents, 1, 3)
    /\ ph = "UpsertingOrders" => calls = SubSeq(UpsertEvents, 1, 5)
    /\ ph = "Complete" => calls = UpsertEvents

\* the steps of a syncAll invocation
StepSyncAll(p) ==
    \/ \E t \in Tenants \cup {NoTenant} : SyncAll(p, t)
    \/ FetchCustomersGraphQL(p)
    \/ FetchCustomersREST(p)
    \/ FetchProducts(p)
    \/ FetchOrders(p)
    \/ CustomerCreateMany(p)
    \/ \E k \in proc[p].pend : CustomerUpdateMany(p, k)
    \/ ProductCreateMany(p)
    \/ \E k \in proc[p].pend : ProductUpdateMany(p, k)
    \/ OrderFindCustomers(p)
    \/ OrderCreateMany(p)
    \/ \E k \in proc[p].pend : OrderUpdateMany(p, k)
    \/ StorageFail(p)

NextLive == StepSyncAll("p1")

\* one syncAll in which every remote and storage call that was issued
\* returns (with a result or with a failure)
SpecLive == Init /\ [][NextLive]_vars /\ WF_vars(NextLive)

\* C22: a syncAll moves through Fetching, UpsertingCustomers,
\* UpsertingProducts, UpsertingOrders, Complete in that order without
\* skipping, repeating or reordering a phase; from any phase it may move to
\* Failed instead; Complete and Failed are never left, and one of them is
\* reached when every remote and storage call returns.
C22_PhaseOrder ==
    /\ [][\A p \in Procs : PhaseStep(p)]_vars
    /\ [](\A p \in Procs : proc[p].kind = "syncAll" => PhaseLog(proc[p]))
    /\ \A p \in Procs :
          (proc[p].kind = "syncAll") ~> (Phase(proc[p]) \in {"Complete", "Failed"})

\* a syncAll went through every phase with records of all three types
C22_Witness ==
    \E p \in Procs :
        /\ proc[p].kind = "syncAll"
        /\ Phase(proc[p]) = "Complete"
        /\ \A e \in Entities : Len(proc[p].data[e]) > 0

\* the i-th response is a page that carries a continuation token (a
\* rel="next" link, hasNextPage)
PageWithToken(f, i) ==
    /\ f.hist[i] = 200
    /\ f.reqs[i] < Len(f.chain)
    /\ ~(i = Len(f.hist) /\ f.out = "err")

\* the i-th response is a page without a continuation token
PageWithoutToken(f, i) ==
    /\ f.hist[i] = 200
    /\ f.reqs[i] = Len(f.chain)
    /\ ~(i = Len(f.hist) /\ f.out = "err")

\* C23: a paginated fetch requests the next page whenever the last response
\* carried a continuation token, whatever was collected so far and also
\* when that page was empty; it requests nothing after a response without a
\* token; an empty first page without a token gives an empty result and no
\* error; it has ended exactly when a page without a token was returned or
\* a request failed.
C23_StopsOnMissingToken ==
    pg.pc # "idle" =>
        /\ \A i \in DOMAIN pg.hist :
              /\ PageWithToken(pg, i) =>
                    /\ i < Len(pg.reqs)
                    /\ pg.reqs[i + 1] = pg.reqs[i] + 1
              /\ PageWithoutToken(pg, i) =>
                    /\ i = Len(pg.reqs)
                    /\ pg.out = "ok"
                    /\ pg.results = Flatten(pg.chain)
        /\ (pg.chain = <<<<>>>> /\ pg.hist = <<200>> /\ pg.error = NoError) =>
              pg.out = "ok" /\ pg.results = <<>>
        /\ (pg.pc = "done") =
              (pg.hist # <<>> /\ (PageWithoutToken(pg, Len(pg.hist)) \/ pg.out = "err"))

\* a fetch went past an empty page that carried a token
C23_Witness ==
    /\ pg.chain = << <<1>>, <<>>, <<2>> >>
    /\ pg.hist = <<200, 200, 200>>
    /\ pg.pc = "done" /\ pg.out = "ok"
    /\ pg.results = <<1, 2>>

\* C24: a 429 response to a page request of either protocol client, the
\* primary (GraphQL) one included, is retried after a wait as long as the
\* retry bound is not used up; the client reports failure only after that.
C24_BothClientsRetry ==
    \A i \in DOMAIN pg.hist :
        (pg.hist[i] = 429 /\ Cardinality(AttemptsUpTo(pg, i)) <= DEFAULT_RETRIES) =>
            \/ i = Len(pg.reqs) /\ pg.pc = "wait" /\ pg.wait > 0
            \/ i < Len(pg.reqs) /\ pg.reqs[i + 1] = pg.reqs[i]

\* the customer external ids the orders of a list refer to
ReferencedCustomers(list) ==
    {id \in {list[k].customerId : k \in DOMAIN list} : id # Null /\ id # ""}

Lookups(pr) == Count(pr.log, "findMany:customers")

\* invocation p takes the step that answers its customer lookup
LookupStep(p) == proc[p].pc = "lookup" /\ proc'[p].pc = "create"

\* invocation p takes a step of the writes of upsertOrders
OrderWriteStep(p) ==
    /\ proc[p].ent = "orders"
    /\ proc[p].pc \in {"create", "update"}
    /\ proc'[p] # proc[p]

LookupDiscipline(p) ==
    LET pr == proc[p]
        ids == ReferencedCustomers(pr.data.orders) IN
    /\ LookupStep(p) =>
          /\ Lookups(pr) = 0 /\ Lookups(proc'[p]) = 1
          /\ ids # {}
          /\ orders' = orders
          /\ proc'[p].cmap =
                CustomersMap({r \in customers : r.tenantId = pr.tenant /\ r.shopifyId \in ids})
    /\ OrderWriteStep(p) =>
          /\ Lookups(pr) = (IF ids = {} THEN 0 ELSE 1)
          /\ Lookups(proc'[p]) = Lookups(pr)

\* C25: a call of upsertOrders makes at most one customer lookup, before
\* it writes any order, for all the distinct customer external ids of its
\* input and for its tenant only, whatever the number of orders and of
\* batches; it makes none when no order carries a customer id.
C25_OneLookup ==
    /\ [][\A p \in Procs : LookupDiscipline(p)]_vars
    /\ [](\A p \in Procs :
             /\ Lookups(proc[p]) <= 1
             /\ ReferencedCustomers(proc[p].data.orders) = {} => Lookups(proc[p]) = 0)

\* three orders in two batches that refer to two customers were written
\* after one lookup
C25_Witness ==
    \E p \in Procs :
        /\ Len(proc[p].data.orders) = 3
        /\ Cardinality(ReferencedCustomers(proc[p].data.orders)) = 2
        /\ Has(proc[p].log, "return:orders")
        /\ Lookups(proc[p]) = 1

\* the fields a call for tenant t that ran alone leaves of record x of type e
LastData(e, t, x) ==
    CASE e = "customers" -> CustomerUpdateData(x)
      [] e = "products" -> ProductUpdateData(x)
      [] e = "orders" -> [customerId |-> ExpectedCustomer(t, x), orderNumber |-> x.orderNumber,
                          totalPrice |-> x.totalPrice, orderDate |-> x.orderDate]

\* position k holds the last occurrence of its external id in the list
LastOccurrence(list, k) ==
    \A j \in DOMAIN list : list[j].shopifyId = list[k].shopifyId => j <= k

\* C26: when the list of an upsert call carries an external id more than
\* once, the row stored when the call returns holds the fields of the last
\* occurrence, whether the occurrences are in one batch or in different ones.
C26_LastWriteWins ==
    \A q \in Procs : \A e \in Entities :
        (Solo(q) /\ proc[q].out = "ok" /\ Has(proc[q].log, "return:" \o e)) =>
            LET list == proc[q].data[e] IN
            \A k \in DOMAIN list :
                LastOccurrence(list, k) =>
                    \E r \in RowsOf(Table(e), proc[q].tenant) :
                        /\ r.shopifyId = list[k].shopifyId
                        /\ RowHolds(r, LastData(e, proc[q].tenant, list[k]))

\* the storage operation invocation p is about to make can be made now
StorageStepEnabled(p) ==
    LET pr == proc[p] IN
    /\ (pr.out = "none" /\ pr.pc = "lookup") => ENABLED OrderFindCustomers(p)
    /\ (pr.out = "none" /\ pr.pc = "create" /\ pr.ent = "customers") => ENABLED CustomerCreateMany(p)
    /\ (pr.out = "none" /\ pr.pc = "create" /\ pr.ent = "products") => ENABLED ProductCreateMany(p)
    /\ (pr.out = "none" /\ pr.pc = "create" /\ pr.ent = "orders") => ENABLED OrderCreateMany(p)
    /\ (pr.pc = "update" /\ pr.ent = "customers") => \A k \in pr.pend : ENABLED CustomerUpdateMany(p, k)
    /\ (pr.pc = "update" /\ pr.ent = "products") => \A k \in pr.pend : ENABLED ProductUpdateMany(p, k)
    /\ (pr.pc = "update" /\ pr.ent = "orders") => \A k \in pr.pend : ENABLED OrderUpdateMany(p, k)

\* C27: nothing makes an invocation wait for another one of the same
\* tenant: a syncAll can be started for any tenant while an earlier
\* invocation is in progress, and every storage operation an invocation
\* has reached (lookup, bulk insert, per-record update) can be made
\* whatever the other invocation is doing.
C27_NoTenantLock ==
    \A p \in Procs :
        /\ (proc[p].pc = "idle" /\ \A q \in Earlier(p) : proc[q].pc # "idle") =>
               \A t \in Tenants : ENABLED SyncAll(p, t)
        /\ StorageStepEnabled(p)

\* two syncAll invocations of one tenant are both in the middle of the
\* per-record updates of a batch of orders
C27_Witness ==
    \E p, q \in Procs :
        /\ p # q
        /\ proc[p].kind = "syncAll" /\ proc[q].kind = "syncAll"
        /\ proc[p].tenant = proc[q].tenant
        /\ proc[p].out = "none" /\ proc[q].out = "none"
        /\ proc[p].ent = "orders" /\ proc[q].ent = "orders"
        /\ proc[p].pc = "update" /\ proc[q].pc = "update"
        /\ Cardinality(proc[p].pend) = 1 /\ Cardinality(proc[q].pend) = 1
        /\ Len(proc[p].data.orders) = 3

\* every invocation that has an order with the key of row r in its input
\* carries for it the external id of the customer r refers to
WritersAgree(r) ==
    \E c \in customers :
        /\ c.id = r.customerId /\ c.tenantId = r.tenantId
        /\ \A p \in Procs :
              proc[p].tenant = r.tenantId =>
                  \A k \in DOMAIN proc[p].data.orders :
                      proc[p].data.orders[k].shopifyId = r.shopifyId =>
                          proc[p].data.orders[k].customerId = c.shopifyId

\* C28: with concurrent writers of one tenant, once an order is stored
\* with a customer reference and every writer's input carries that customer
\* id for the order, no later write sets the stored reference to null.
C28_LinkNeverReset ==
    [][\A r \in orders :
          (r.customerId # NullId /\ WritersAgree(r)) =>
              \A r2 \in orders' : SameKey(r2, r) => r2.customerId # NullId]_vars

\* C29: once a syncAll has reported a failure to its caller, the invocation
\* does nothing more: no remote request of it is still answered and no
\* storage write of it is made; the siblings of a failed fetch or of a
\* failed per-record update do not go on after the failure was reported.
C29_FailedIsQuiescent ==
    [][\A p \in Procs :
          (proc[p].kind = "syncAll" /\ proc[p].out = "err") =>
              /\ proc'[p] = proc[p]
              /\ Quiescent(proc[p])]_vars

\* syncAll pr has fetched the lists of all three entity types
AllFetched(pr) ==
    /\ pr.inflight = {}
    /\ Has(pr.log, "rest:products") /\ Has(pr.log, "rest:orders")
    /\ \A e \in Entities : ~Has(pr.log, "fail:rest:" \o e)
    /\ Has(pr.log, "fail:graphql:customers") => Has(pr.log, "rest:customers")

\* syncAll pr found no tenant, or one of its fetches failed for good
FailedBeforeUpsert(pr) ==
    \/ pr.err = "Tenant not found"
    \/ \E e \in Entities : Has(pr.log, "fail:rest:" \o e)

\* C30: a syncAll starts no storage operation before the customers, the
\* products and the orders are all fetched; when the tenant does not exist
\* or a fetch fails (the fallback too, where there is one), the invocation
\* calls no upsert function and creates and modifies no row.
C30_NoWriteBeforeFetched ==
    /\ [](\A p \in Procs :
             proc[p].kind = "syncAll" =>
                 /\ (proc[p].pc \in {"lookup", "create", "update"}
                        \/ \E k \in DOMAIN proc[p].log : IsUpsertEvent(proc[p].log[k]))
                       => AllFetched(proc[p])
                 /\ FailedBeforeUpsert(proc[p]) =>
                       /\ proc[p].out = "err"
                       /\ proc[p].pc \in {"tenant", "rest_customers", "fetch_po"}
                       /\ SelectSeq(proc[p].log, IsUpsertEvent) = <<>>)
    /\ [][\A p \in Procs :
             (proc[p].kind = "syncAll" /\ proc'[p] # proc[p]
                 /\ (~AllFetched(proc[p]) \/ FailedBeforeUpsert(proc[p])))
                 => UNCHANGED dbVars]_vars

\* a syncAll that ran alone on the empty tables fetched customers and
\* products, failed to fetch the orders and left the tables empty
C30_Witness ==
    \E p \in Procs :
        /\ proc[p].kind = "syncAll"
        /\ proc[p].after = {} /\ Solo(p)
        /\ proc[p].err = "rest:orders"
        /\ Len(proc[p].data.customers) > 0 /\ Len(proc[p].data.products) > 0
        /\ customers = {} /\ products = {} /\ orders = {}

=============================================================================
